---- MODULE Spec2Model ----
(***************************************************************************)
(* Koji's emotional state machine (internal/personality): the mood         *)
(* transition table, the time-based decay policy and the mood echo ledger  *)
(* of the variation engine.                                                *)
(*                                                                         *)
(* Time is wall-clock time in whole seconds.  Intensities and intensity    *)
(* hints are fixed-point hundredths (0.3 is 30, 0.9 is 90), so that        *)
(* "intensity - 0.2" is exact.  Echo strengths are in 180ths (1.0 is 180), *)
(* so that "1 - elapsed/window" is exact for the windows of 20, 30, 45 and *)
(* 60 seconds.  Action weights are in tenths (4.0 is 40).                  *)
(***************************************************************************)
EXTENDS Integers, Sequences, FiniteSets, TLC

VARIABLES
    CurrentMood,   \* EmotionalState.CurrentMood
    Intensity,     \* EmotionalState.Intensity, in hundredths
    EnteredAt,     \* EmotionalState.EnteredAt, in seconds
    baseline,      \* EmotionalState.baseline
    now,           \* the wall clock read by time.Now()
    moodHistory,   \* VariationEngine.moodHistory
    last,          \* the most recent call: its arguments, the state it found, its result
    decayCount,    \* mood changes made by Decay since the last event that matched a rule
    scenario,      \* results of the consecutive loud_noise events received since curious
    recorded,      \* every echo ever passed through RecordMoodChange, in order
    pc,            \* cmd/koji: where the main goroutine stands
    inputChan,     \* cmd/koji: the unbuffered input channel and the line readInput is sending
    app,           \* cmd/koji: app.useLLM, app.llmClient != nil, app.engine != nil
    frame,         \* cmd/koji: the locals of the running handleInput
    tickers,       \* cmd/koji: a tick waiting in decayTicker.C, in microTicker.C
    tally,         \* cmd/koji: lines read, events handled, actions chosen
    tables,        \* package personality: the maps weightedMoodActions and echoEffects
    twin,          \* a second EmotionalState, fed the same events, hints and Decay calls
    people,        \* vision.FaceDB.people
    enrollers,     \* vision: the goroutines calling FaceDB.EnrollOwner
    activeSession, \* vision.Server.activeSession: 0 for nil, else an index of sessions
    sessions,      \* vision: the EnrollmentSession objects created so far
    requests,      \* vision: the HTTP requests being served, one goroutine each
    sightings      \* vision: the recordSighting goroutines started by Recognize

vars == <<CurrentMood, Intensity, EnteredAt, baseline, now, moodHistory,
          last, decayCount, scenario, recorded,
          pc, inputChan, app, frame, tickers, tally,
          tables, twin, people, enrollers,
          activeSession, sessions, requests, sightings>>

serverVars == <<activeSession, sessions, requests, sightings>>

faceVars == <<people, enrollers, serverVars>>

\* What the steps of the library and of cmd/koji never touch.
sideVars == <<twin, faceVars>>

cliVars == <<pc, inputChan, app, frame, tickers, tally>>

stateVars == <<CurrentMood, Intensity, EnteredAt, baseline>>

----------------------------------------------------------------------------
(* Vocabularies *)

MoodCurious    == "curious"
MoodExcited    == "excited"
MoodStartled   == "startled"
MoodFrightened == "frightened"
MoodHappy      == "happy"
MoodSleepy     == "sleepy"
MoodCautious   == "cautious"

Mood == {MoodCurious, MoodExcited, MoodStartled, MoodFrightened,
         MoodHappy, MoodSleepy, MoodCautious}

IntensityLow    == 30
IntensityMedium == 60
IntensityHigh   == 90

EventLoudNoise        == "loud_noise"
EventMusic            == "music"
EventSpeech           == "speech"
EventSilence          == "silence"
EventRhythm           == "rhythm"
EventFamiliarFace     == "familiar_face"
EventUnknownFace      == "unknown_face"
EventMotionDetected   == "motion_detected"
EventNoMotion         == "no_motion"
EventUnknownObject    == "unknown_object"
EventPetted           == "petted"
EventPoked            == "poked"
EventPickedUp         == "picked_up"
EventTimePassedShort  == "time_passed_short"
EventTimePassedMedium == "time_passed_medium"
EventTimePassedLong   == "time_passed_long"

\* Event is a string type: a caller may pass a value that is none of the constants.
Event == {EventLoudNoise, EventMusic, EventSpeech, EventSilence, EventRhythm,
          EventFamiliarFace, EventUnknownFace, EventMotionDetected, EventNoMotion,
          EventUnknownObject, EventPetted, EventPoked, EventPickedUp,
          EventTimePassedShort, EventTimePassedMedium, EventTimePassedLong,
          "unknown_event"}

DefaultHint == 50

\* Intensity hints offered to ProcessEvent: the default and both sides of the
\* 0.3 and 0.7 comparisons (the CLI's soft 0.2 and loud 0.9 behave as 29 and 71).
Hints == {29, 30, DefaultHint, 70, 71}

NewEventContext(event) == [Event |-> event, Intensity |-> DefaultHint]

WithIntensity(ec, intensity) == [ec EXCEPT !.Intensity = intensity]

----------------------------------------------------------------------------
(* Bounds *)

MaxTime     == 21   \* Spec: the clock stops here
TimeStep    == 5    \* Spec: the clock advances by TimeStep or by LongStep
LongStep    == 16   \* Spec: "entered 16 s ago"
MaxDwell    == 61   \* SpecDecay: the clock stops once a mood was held this long
DwellStep   == 5    \* SpecDecay: the clock advances by DwellStep
MaxRecords  == 10   \* SpecEcho: number of RecordMoodChange calls
MaxEchoTime == 2    \* SpecEcho: the clock stops here
MaxVarRecords == 2  \* SpecVar: number of RecordMoodChange calls
VarStep     == 22   \* SpecVar: the clock advances by VarStep or by VarStep + 1
MaxVarTime  == 46   \* SpecVar: the clock stops here
MaxChoiceLen == 3   \* SpecChoice: length of the candidate list
MaxLibRecords == 9  \* SpecLib: number of RecordMoodChange calls
LibStep     == 10   \* SpecLib: the clock advances by LibStep
MaxLibTime  == 20   \* SpecLib: the clock stops here
MaxInputs   == 2    \* SpecCLI: lines typed on standard input
TickStep    == 5    \* SpecCLI: the clock advances by TickStep
MaxCliTime  == 10   \* SpecCLI: no clock step beyond this time

----------------------------------------------------------------------------
(* Transition table and decay policy *)

MoodTransition(newMood, intensity) == [NewMood |-> newMood, Intensity |-> intensity]

transitionTable ==
    [ loud_noise |->
        [ curious    |-> MoodTransition(MoodStartled, IntensityHigh),
          happy      |-> MoodTransition(MoodStartled, IntensityMedium),
          sleepy     |-> MoodTransition(MoodFrightened, IntensityHigh),
          startled   |-> MoodTransition(MoodFrightened, IntensityHigh),
          cautious   |-> MoodTransition(MoodFrightened, IntensityHigh),
          excited    |-> MoodTransition(MoodStartled, IntensityMedium),
          frightened |-> MoodTransition(MoodFrightened, IntensityHigh) ],
      music |->
        [ curious    |-> MoodTransition(MoodHappy, IntensityMedium),
          sleepy     |-> MoodTransition(MoodCurious, IntensityLow),
          cautious   |-> MoodTransition(MoodCurious, IntensityMedium),
          startled   |-> MoodTransition(MoodCautious, IntensityMedium),
          frightened |-> MoodTransition(MoodCautious, IntensityMedium),
          happy      |-> MoodTransition(MoodHappy, IntensityHigh),
          excited    |-> MoodTransition(MoodHappy, IntensityHigh) ],
      rhythm |->
        [ curious    |-> MoodTransition(MoodHappy, IntensityMedium),
          happy      |-> MoodTransition(MoodExcited, IntensityHigh),
          excited    |-> MoodTransition(MoodExcited, IntensityHigh) ],
      familiar_face |->
        [ curious    |-> MoodTransition(MoodHappy, IntensityMedium),
          cautious   |-> MoodTransition(MoodHappy, IntensityMedium),
          frightened |-> MoodTransition(MoodCautious, IntensityMedium),
          startled   |-> MoodTransition(MoodCautious, IntensityLow),
          sleepy     |-> MoodTransition(MoodHappy, IntensityLow),
          happy      |-> MoodTransition(MoodExcited, IntensityHigh),
          excited    |-> MoodTransition(MoodExcited, IntensityHigh) ],
      unknown_face |->
        [ curious    |-> MoodTransition(MoodCautious, IntensityMedium),
          happy      |-> MoodTransition(MoodCautious, IntensityLow),
          sleepy     |-> MoodTransition(MoodCautious, IntensityMedium),
          cautious   |-> MoodTransition(MoodCautious, IntensityHigh),
          frightened |-> MoodTransition(MoodFrightened, IntensityHigh),
          startled   |-> MoodTransition(MoodFrightened, IntensityHigh),
          excited    |-> MoodTransition(MoodCautious, IntensityMedium) ],
      motion_detected |->
        [ curious    |-> MoodTransition(MoodExcited, IntensityMedium),
          sleepy     |-> MoodTransition(MoodCurious, IntensityLow),
          happy      |-> MoodTransition(MoodExcited, IntensityMedium) ],
      unknown_object |->
        [ curious    |-> MoodTransition(MoodExcited, IntensityHigh),
          happy      |-> MoodTransition(MoodExcited, IntensityHigh),
          sleepy     |-> MoodTransition(MoodCurious, IntensityMedium),
          excited    |-> MoodTransition(MoodExcited, IntensityHigh),
          cautious   |-> MoodTransition(MoodCurious, IntensityMedium),
          startled   |-> MoodTransition(MoodCautious, IntensityHigh),
          frightened |-> MoodTransition(MoodCautious, IntensityHigh) ],
      petted |->
        [ curious    |-> MoodTransition(MoodHappy, IntensityMedium),
          cautious   |-> MoodTransition(MoodHappy, IntensityMedium),
          frightened |-> MoodTransition(MoodCautious, IntensityLow),
          startled   |-> MoodTransition(MoodCautious, IntensityLow),
          happy      |-> MoodTransition(MoodHappy, IntensityHigh),
          excited    |-> MoodTransition(MoodHappy, IntensityHigh),
          sleepy     |-> MoodTransition(MoodSleepy, IntensityMedium) ],
      poked |->
        [ curious    |-> MoodTransition(MoodStartled, IntensityMedium),
          sleepy     |-> MoodTransition(MoodStartled, IntensityHigh),
          happy      |-> MoodTransition(MoodCurious, IntensityMedium),
          cautious   |-> MoodTransition(MoodStartled, IntensityMedium) ],
      silence |->
        [ curious    |-> MoodTransition(MoodSleepy, IntensityLow),
          happy      |-> MoodTransition(MoodCurious, IntensityLow),
          cautious   |-> MoodTransition(MoodCurious, IntensityLow),
          excited    |-> MoodTransition(MoodHappy, IntensityMedium) ],
      time_passed_long |->
        [ curious    |-> MoodTransition(MoodSleepy, IntensityMedium),
          cautious   |-> MoodTransition(MoodCurious, IntensityMedium),
          happy      |-> MoodTransition(MoodCurious, IntensityMedium),
          excited    |-> MoodTransition(MoodHappy, IntensityMedium) ] ]

\* Mutant: frightened calms down through startled, a path of three steps.
decayPaths_viaStartled ==
    [ frightened |-> MoodStartled,
      cautious   |-> MoodCurious,
      startled   |-> MoodCautious,
      excited    |-> MoodHappy,
      happy      |-> MoodCurious,
      sleepy     |-> MoodCurious,
      curious    |-> MoodCurious ]

\* Mutant: a successor that is not a mood of the vocabulary.
decayPaths_typo ==
    [ frightened |-> MoodCautious,
      cautious   |-> MoodCurious,
      startled   |-> "cautios",
      excited    |-> MoodHappy,
      happy      |-> MoodCurious,
      sleepy     |-> MoodCurious,
      curious    |-> MoodCurious ]

decayPaths ==
    [ frightened |-> MoodCautious,
      cautious   |-> MoodCurious,
      startled   |-> MoodCautious,
      excited    |-> MoodHappy,
      happy      |-> MoodCurious,
      sleepy     |-> MoodCurious,
      curious    |-> MoodCurious ]

\* in seconds
decayTimes ==
    [ frightened |-> 15,
      startled   |-> 5,
      cautious   |-> 20,
      excited    |-> 30,
      happy      |-> 45,
      sleepy     |-> 60 ]

----------------------------------------------------------------------------
(* Emotional state *)

NoTransition == [ok |-> FALSE, NewMood |-> "", Intensity |-> 0]

\* Mutant: a mood missing from an event's rules is treated as a rule that keeps the mood.
Transition_defaultRule(event, mood) ==
    IF event \notin DOMAIN transitionTable
    THEN NoTransition
    ELSE IF mood \notin DOMAIN transitionTable[event]
         THEN [ok |-> TRUE, NewMood |-> mood, Intensity |-> IntensityMedium]
         ELSE [ok        |-> TRUE,
               NewMood   |-> transitionTable[event][mood].NewMood,
               Intensity |-> transitionTable[event][mood].Intensity]

\* Mutant: loud_noise does not escalate a startled pet.
Transition_noEscalation(event, mood) ==
    IF event \notin DOMAIN transitionTable
    THEN NoTransition
    ELSE IF mood \notin DOMAIN transitionTable[event]
         THEN NoTransition
         ELSE IF event = EventLoudNoise /\ mood = MoodStartled
              THEN [ok |-> TRUE, NewMood |-> MoodStartled, Intensity |-> IntensityHigh]
              ELSE [ok        |-> TRUE,
                    NewMood   |-> transitionTable[event][mood].NewMood,
                    Intensity |-> transitionTable[event][mood].Intensity]

\* The two map lookups of ProcessEvent: by event, then by current mood.
\* Mutant: no rule leads into sleepy.
Transition_awake(event, mood) ==
    IF event \notin DOMAIN transitionTable
    THEN NoTransition
    ELSE IF mood \notin DOMAIN transitionTable[event]
         THEN NoTransition
         ELSE IF transitionTable[event][mood].NewMood = MoodSleepy
              THEN NoTransition
              ELSE [ok        |-> TRUE,
                    NewMood   |-> transitionTable[event][mood].NewMood,
                    Intensity |-> transitionTable[event][mood].Intensity]

Transition(event, mood) ==
    IF event \notin DOMAIN transitionTable
    THEN NoTransition
    ELSE IF mood \notin DOMAIN transitionTable[event]
         THEN NoTransition
         ELSE [ok        |-> TRUE,
               NewMood   |-> transitionTable[event][mood].NewMood,
               Intensity |-> transitionTable[event][mood].Intensity]

\* Mutant: the comparisons include the thresholds.
ScaleIntensity_inclusive(tableIntensity, hint) ==
    IF hint >= 70 THEN IntensityHigh
    ELSE IF hint <= 30 THEN IntensityLow
    ELSE tableIntensity

\* Mutant: the hint itself becomes the intensity.
ScaleIntensity_proportional(tableIntensity, hint) == hint

\* "Scale intensity by event intensity"
ScaleIntensity(tableIntensity, hint) ==
    IF hint > 70 THEN IntensityHigh
    ELSE IF hint < 30 THEN IntensityLow
    ELSE tableIntensity

\* Mutant: every matched rule is reported as a change.
MoodChanged_always(oldMood, newMood) == TRUE

\* ProcessEvent's result: oldMood != e.CurrentMood
MoodChanged(oldMood, newMood) == oldMood # newMood

\* Mutant: the entry timestamp is reset only when the mood value changes.
SetMood_keepTimestamp(mood, intensity) ==
    /\ CurrentMood' = mood
    /\ Intensity' = intensity
    /\ EnteredAt' = IF mood = CurrentMood THEN EnteredAt ELSE now
    /\ UNCHANGED baseline

SetMood(mood, intensity) ==
    /\ CurrentMood' = mood
    /\ Intensity' = intensity
    /\ EnteredAt' = now
    /\ UNCHANGED baseline

Duration == now - EnteredAt

IsBaseline == CurrentMood = baseline

\* Mutant: the threshold itself is still too early.
DecayDue_strict(duration, decayTime) == duration > decayTime

\* Decay's time test: it returns early while e.Duration() < decayTime
DecayDue(duration, decayTime) == ~(duration < decayTime)

\* Mutant: no floor at low.
DecayIntensity_noFloor(intensity) == intensity - 20

\* "Decay intensity slightly when transitioning"
DecayIntensity(intensity) ==
    IF intensity - 20 < IntensityLow THEN IntensityLow ELSE intensity - 20

\* "out" is what a query or a selection returned; <<>> for the other calls.
Call(op, event, hint, ret) ==
    [op |-> op, event |-> event, hint |-> hint, ret |-> ret,
     oldMood |-> CurrentMood, oldIntensity |-> Intensity, oldEnteredAt |-> EnteredAt,
     out |-> <<>>]

NoCall(op) ==
    [op |-> op, event |-> "", hint |-> 0, ret |-> FALSE,
     oldMood |-> "", oldIntensity |-> 0, oldEnteredAt |-> 0,
     out |-> <<>>]

\* The consecutive loud_noise events received since the mood was curious.
ScenarioAfter(ctx, found, newMood, ret) ==
    IF ctx.Event = EventLoudNoise /\ found
    THEN IF Len(scenario) = 1
         THEN Append(scenario, [mood |-> newMood, changed |-> ret])
         ELSE IF CurrentMood = MoodCurious
              THEN <<[mood |-> newMood, changed |-> ret]>>
              ELSE <<>>
    ELSE <<>>

ProcessEvent(ctx) ==
    LET t == Transition(ctx.Event, CurrentMood) IN
    IF ~t.ok
    THEN /\ last' = Call("ProcessEvent", ctx.Event, ctx.Intensity, FALSE)
         /\ scenario' = <<>>
         /\ UNCHANGED <<stateVars, decayCount>>
    ELSE /\ SetMood(t.NewMood, ScaleIntensity(t.Intensity, ctx.Intensity))
         /\ last' = Call("ProcessEvent", ctx.Event, ctx.Intensity,
                         MoodChanged(CurrentMood, CurrentMood'))
         /\ scenario' = ScenarioAfter(ctx, TRUE, CurrentMood',
                                      MoodChanged(CurrentMood, CurrentMood'))
         /\ decayCount' = 0

Decay ==
    IF IsBaseline
    THEN /\ last' = Call("Decay", "", 0, FALSE)
         /\ UNCHANGED <<stateVars, decayCount, scenario>>
    ELSE IF CurrentMood \notin DOMAIN decayTimes
    THEN /\ last' = Call("Decay", "", 0, FALSE)
         /\ UNCHANGED <<stateVars, decayCount, scenario>>
    ELSE IF ~DecayDue(Duration, decayTimes[CurrentMood])
    THEN /\ last' = Call("Decay", "", 0, FALSE)
         /\ UNCHANGED <<stateVars, decayCount, scenario>>
    ELSE IF decayPaths[CurrentMood] = CurrentMood
    THEN /\ last' = Call("Decay", "", 0, FALSE)
         /\ UNCHANGED <<stateVars, decayCount, scenario>>
    ELSE /\ SetMood(decayPaths[CurrentMood], DecayIntensity(Intensity))
         /\ last' = Call("Decay", "", 0, TRUE)
         /\ decayCount' = decayCount + 1
         /\ scenario' = <<>>

\* Mutant: a timer ages the stored echoes while the clock moves.
Advance_aging(d) ==
    /\ now' = now + d
    /\ last' = NoCall("Advance")
    /\ moodHistory' =
          [i \in 1..Len(moodHistory) |->
              [moodHistory[i] EXCEPT !.Strength = IF @ > d THEN @ - d ELSE 0]]
    /\ UNCHANGED <<stateVars, decayCount, scenario, recorded>>

\* The wall clock moves between calls; no stored state changes.
Advance(d) ==
    /\ now' = now + d
    /\ last' = NoCall("Advance")
    /\ UNCHANGED <<stateVars, moodHistory, decayCount, scenario, recorded>>

NewEmotionalState ==
    /\ CurrentMood = MoodCurious
    /\ Intensity = IntensityMedium
    /\ EnteredAt = now
    /\ baseline = MoodCurious

----------------------------------------------------------------------------
(* Variation engine: the echo ledger *)

maxHistory == 8

MoodEcho(fromMood, strength, startedAt) ==
    [FromMood |-> fromMood, Strength |-> strength, StartedAt |-> startedAt]

NewVariationEngine == moodHistory = <<>>

StrengthFull == 180   \* Strength 1.0, in 180ths

\* Mutant: the ledger is trimmed only once it is over capacity.
Evict_late(history) ==
    IF Len(history) > maxHistory THEN Tail(history) ELSE history

\* "Add to history, evicting oldest if needed"
Evict(history) ==
    IF Len(history) >= maxHistory THEN Tail(history) ELSE history

\* Mutant: a mood without an echo window takes no slot of the ledger.
RecordMoodChange_skipping(fromMood) ==
    LET echo == MoodEcho(fromMood, StrengthFull, now) IN
    /\ moodHistory' = IF fromMood \in {MoodFrightened, MoodStartled, MoodExcited, MoodHappy}
                       THEN Append(Evict(moodHistory), echo)
                       ELSE moodHistory
    /\ recorded' = Append(recorded, echo)
    /\ last' = NoCall("RecordMoodChange")
    /\ UNCHANGED <<stateVars, now, decayCount, scenario>>

RecordMoodChange(fromMood) ==
    LET echo == MoodEcho(fromMood, StrengthFull, now) IN
    /\ moodHistory' = Append(Evict(moodHistory), echo)
    /\ recorded' = Append(recorded, echo)
    /\ last' = NoCall("RecordMoodChange")
    /\ UNCHANGED <<stateVars, now, decayCount, scenario>>

----------------------------------------------------------------------------
(* Actions, weighted tables and echo effects *)

ActionStay        == "stay"
ActionExplore     == "explore"
ActionFlee        == "flee"
ActionApproach    == "approach"
ActionRetreat     == "retreat"
ActionFreeze      == "freeze"
ActionWagTail     == "wag_tail"
ActionPerkEars    == "perk_ears"
ActionFlattenEars == "flatten_ears"
ActionTiltHead    == "tilt_head"
ActionCrouch      == "crouch"
ActionBounce      == "bounce"
ActionSpin        == "spin"
ActionCurl        == "curl"
ActionPeek        == "peek"
ActionNuzzle      == "nuzzle"
ActionWhimper     == "whimper"
ActionChirp       == "chirp"
ActionBark        == "bark"
ActionGrowl       == "growl"
ActionYawn        == "yawn"
ActionPurr        == "purr"
ActionHeadBob     == "head_bob"
ActionFlinch      == "flinch"
ActionSniff       == "sniff"

ModifierSlow     == "slow"
ModifierNormal   == "normal"
ModifierFast     == "fast"
ModifierFrantic  == "frantic"
ModifierGentle   == "gentle"
ModifierHesitant == "hesitant"
ModifierEager    == "eager"

\* Weight in tenths.
WeightedAction(action, weight) == [Action |-> action, Weight |-> weight]

ModifiedAction(action, modifier) == [Action |-> action, Modifier |-> modifier]

weightedMoodActions ==
    [ curious |-> <<
          WeightedAction(ActionExplore, 40),
          WeightedAction(ActionPerkEars, 30),
          WeightedAction(ActionTiltHead, 30),
          WeightedAction(ActionApproach, 20),
          WeightedAction(ActionStay, 10),
          WeightedAction(ActionChirp, 15),
          WeightedAction(ActionSniff, 25) >>,
      excited |-> <<
          WeightedAction(ActionBounce, 40),
          WeightedAction(ActionWagTail, 40),
          WeightedAction(ActionSpin, 30),
          WeightedAction(ActionApproach, 30),
          WeightedAction(ActionBark, 20),
          WeightedAction(ActionPerkEars, 20),
          WeightedAction(ActionChirp, 25),
          WeightedAction(ActionExplore, 15) >>,
      happy |-> <<
          WeightedAction(ActionWagTail, 50),
          WeightedAction(ActionNuzzle, 30),
          WeightedAction(ActionPurr, 30),
          WeightedAction(ActionStay, 25),
          WeightedAction(ActionHeadBob, 20),
          WeightedAction(ActionChirp, 20),
          WeightedAction(ActionApproach, 15),
          WeightedAction(ActionExplore, 10) >>,
      startled |-> <<
          WeightedAction(ActionFreeze, 50),
          WeightedAction(ActionPerkEars, 40),
          WeightedAction(ActionCrouch, 30),
          WeightedAction(ActionRetreat, 25),
          WeightedAction(ActionWhimper, 20),
          WeightedAction(ActionFlee, 15),
          WeightedAction(ActionFlattenEars, 20) >>,
      frightened |-> <<
          WeightedAction(ActionFlee, 50),
          WeightedAction(ActionCrouch, 40),
          WeightedAction(ActionWhimper, 40),
          WeightedAction(ActionFlattenEars, 35),
          WeightedAction(ActionRetreat, 30),
          WeightedAction(ActionPeek, 20),
          WeightedAction(ActionFreeze, 15) >>,
      cautious |-> <<
          WeightedAction(ActionPeek, 40),
          WeightedAction(ActionPerkEars, 40),
          WeightedAction(ActionFreeze, 30),
          WeightedAction(ActionStay, 30),
          WeightedAction(ActionRetreat, 25),
          WeightedAction(ActionGrowl, 20),
          WeightedAction(ActionFlattenEars, 15),
          WeightedAction(ActionWhimper, 10) >>,
      sleepy |-> <<
          WeightedAction(ActionCurl, 50),
          WeightedAction(ActionYawn, 40),
          WeightedAction(ActionStay, 35),
          WeightedAction(ActionPurr, 20) >> ]

\* DecayTime in seconds.
echoEffects ==
    [ frightened |->
        [ DecayTime |-> 45,
          Effects |->
            [ curious  |-> << WeightedAction(ActionPeek, 20),
                              WeightedAction(ActionFlattenEars, 15),
                              WeightedAction(ActionFreeze, 10) >>,
              cautious |-> << WeightedAction(ActionWhimper, 15),
                              WeightedAction(ActionCrouch, 10) >>,
              happy    |-> << WeightedAction(ActionPeek, 10) >> ] ],
      startled |->
        [ DecayTime |-> 20,
          Effects |->
            [ curious  |-> << WeightedAction(ActionPerkEars, 20),
                              WeightedAction(ActionFreeze, 10) >>,
              cautious |-> << WeightedAction(ActionFlinch, 15) >> ] ],
      excited |->
        [ DecayTime |-> 30,
          Effects |->
            [ happy    |-> << WeightedAction(ActionBounce, 20),
                              WeightedAction(ActionWagTail, 15) >>,
              curious  |-> << WeightedAction(ActionBounce, 10) >> ] ],
      happy |->
        [ DecayTime |-> 60,
          Effects |->
            [ curious  |-> << WeightedAction(ActionWagTail, 15),
                              WeightedAction(ActionChirp, 10) >> ] ] ]

moodActions ==
    [ curious    |-> << ActionExplore, ActionApproach, ActionStay,
                        ActionPerkEars, ActionTiltHead, ActionChirp >>,
      excited    |-> << ActionApproach, ActionExplore, ActionSpin,
                        ActionWagTail, ActionBounce, ActionPerkEars,
                        ActionChirp, ActionBark >>,
      happy      |-> << ActionStay, ActionApproach, ActionExplore,
                        ActionWagTail, ActionNuzzle, ActionHeadBob,
                        ActionChirp, ActionPurr >>,
      startled   |-> << ActionFreeze, ActionRetreat, ActionFlee,
                        ActionPerkEars, ActionCrouch, ActionWhimper >>,
      frightened |-> << ActionFlee, ActionRetreat, ActionFreeze,
                        ActionFlattenEars, ActionCrouch, ActionPeek,
                        ActionWhimper >>,
      cautious   |-> << ActionFreeze, ActionRetreat, ActionStay, ActionPeek,
                        ActionPerkEars, ActionFlattenEars,
                        ActionGrowl, ActionWhimper >>,
      sleepy     |-> << ActionStay, ActionCurl, ActionYawn, ActionPurr >> ]

AvailableActions(mood) ==
    IF mood \notin DOMAIN moodActions
    THEN moodActions[MoodCurious]
    ELSE moodActions[mood]

ActionSet(movement, expression, sound) ==
    [Movement |-> movement, Expression |-> expression, Sound |-> sound]

SuggestDefaultAction(mood) ==
    CASE mood = MoodCurious    -> ActionSet(ActionExplore, ActionPerkEars, ActionChirp)
      [] mood = MoodExcited    -> ActionSet(ActionApproach, ActionWagTail, ActionChirp)
      [] mood = MoodHappy      -> ActionSet(ActionStay, ActionWagTail, ActionPurr)
      [] mood = MoodStartled   -> ActionSet(ActionFreeze, ActionPerkEars, ActionWhimper)
      [] mood = MoodFrightened -> ActionSet(ActionFlee, ActionFlattenEars, ActionWhimper)
      [] mood = MoodCautious   -> ActionSet(ActionFreeze, ActionPerkEars, ActionGrowl)
      [] mood = MoodSleepy     -> ActionSet(ActionCurl, ActionCurl, ActionYawn)
      [] OTHER                 -> ActionSet(ActionStay, ActionPerkEars, ActionChirp)

----------------------------------------------------------------------------
(* Variation engine: active echoes and action selection *)

\* Mutant: the strength is measured against a fixed 60 s window.
LinearStrength_fixedWindow(elapsed, decayTime) ==
    StrengthFull - (elapsed * StrengthFull) \div 60

\* "Calculate remaining strength (linear decay)": 1.0 - elapsed/DecayTime
LinearStrength(elapsed, decayTime) ==
    StrengthFull - (elapsed * StrengthFull) \div decayTime

\* Mutant: an echo is still reported at the very end of its window.
Faded_late(elapsed, decayTime) == elapsed > decayTime

\* "echo has faded"
Faded(elapsed, decayTime) == elapsed >= decayTime

RECURSIVE ActiveEchoes(_, _)
\* The list GetActiveEchoes builds from the ledger at time t.
ActiveEchoes(history, t) ==
    IF history = <<>>
    THEN <<>>
    ELSE LET echo == Head(history)
             rest == ActiveEchoes(Tail(history), t)
         IN  IF echo.FromMood \notin DOMAIN echoEffects
             THEN rest
             ELSE IF Faded(t - echo.StartedAt, echoEffects[echo.FromMood].DecayTime)
                  THEN rest
                  ELSE <<MoodEcho(echo.FromMood,
                                  LinearStrength(t - echo.StartedAt,
                                                 echoEffects[echo.FromMood].DecayTime),
                                  echo.StartedAt)>> \o rest

\* Mutant: the call also drops the faded echoes from the ledger.
GetActiveEchoes_pruning ==
    /\ last' = [Call("GetActiveEchoes", "", 0, FALSE)
                    EXCEPT !.out = ActiveEchoes(moodHistory, now)]
    /\ moodHistory' = ActiveEchoes(moodHistory, now)
    /\ UNCHANGED <<stateVars, decayCount, scenario, recorded>>

GetActiveEchoes ==
    /\ last' = [Call("GetActiveEchoes", "", 0, FALSE)
                    EXCEPT !.out = ActiveEchoes(moodHistory, now)]
    /\ UNCHANGED <<stateVars, moodHistory, decayCount, scenario, recorded>>

\* Mutant: a mood without a table has no candidates.
getWeightedActions_noFallback(mood) ==
    IF mood \notin DOMAIN tables.weighted
    THEN <<>>
    ELSE tables.weighted[mood]

\* Mutant: every mood draws from the frightened table.
getWeightedActions_frightened(mood) ==
    IF mood \notin DOMAIN tables.weighted
    THEN tables.weighted[MoodCurious]
    ELSE tables.weighted[MoodFrightened]

getWeightedActions(mood) ==
    IF mood \notin DOMAIN tables.weighted
    THEN tables.weighted[MoodCurious]
    ELSE tables.weighted[mood]

\* A weight of the base table, in the unit of weight x strength (1/1800).
BaseCandidates(actions) ==
    [i \in 1..Len(actions) |->
        WeightedAction(actions[i].Action, actions[i].Weight * StrengthFull)]

\* Mutant: the echo's actions keep their configured weight.
EchoWeight_unscaled(weight, strength) == weight * StrengthFull

\* wa.Weight * echo.Strength
EchoWeight(weight, strength) == weight * strength

RECURSIVE EchoCandidates(_, _)
\* "Add echo effects from previous moods"
EchoCandidates(echoes, mood) ==
    IF echoes = <<>>
    THEN <<>>
    ELSE LET echo == Head(echoes)
             rest == EchoCandidates(Tail(echoes), mood)
         IN  IF echo.FromMood \notin DOMAIN tables.effects
             THEN rest
             ELSE IF mood \notin DOMAIN tables.effects[echo.FromMood].Effects
                  THEN rest
                  ELSE LET echoActions == tables.effects[echo.FromMood].Effects[mood]
                       IN  [i \in 1..Len(echoActions) |->
                               WeightedAction(echoActions[i].Action,
                                              EchoWeight(echoActions[i].Weight,
                                                         echo.Strength))] \o rest

DrawGrid == 8   \* rng.Float64() takes the values 0/8 .. 7/8

Draws == 0..(DrawGrid - 1)

RECURSIVE Cumulative(_, _)
\* The running sum of the first i weights.
Cumulative(actions, i) ==
    IF i = 0 THEN 0 ELSE Cumulative(actions, i - 1) + actions[i].Weight

\* Mutant: a candidate is taken only when the draw is strictly below its cumulative weight.
DrawReaches_strict(u, totalWeight, cumulative) ==
    u * totalWeight < cumulative * DrawGrid

\* r <= cumulative, with r = (u / DrawGrid) * totalWeight
DrawReaches(u, totalWeight, cumulative) ==
    u * totalWeight <= cumulative * DrawGrid

\* Mutant: every candidate is equally likely.
weightedRandomChoice_uniform(actions, u) ==
    IF Len(actions) = 0
    THEN ActionStay
    ELSE actions[(u * Len(actions)) \div DrawGrid + 1].Action

weightedRandomChoice(actions, u) ==
    IF Len(actions) = 0
    THEN ActionStay
    ELSE LET totalWeight == Cumulative(actions, Len(actions))
             reached == {i \in 1..Len(actions) :
                            DrawReaches(u, totalWeight, Cumulative(actions, i))}
         IN  IF reached = {}
             THEN actions[1].Action
             ELSE actions[CHOOSE i \in reached : \A k \in reached : i <= k].Action

\* jitter := (rng.Float64() - 0.5) * 0.2, in hundredths: -0.1 <= jitter < 0.1
Jitters == {-10, 0, 9}

\* Mutant: the thresholds are applied to the intensity itself.
intensityToModifier_noJitter(intensity, mood, jitter) ==
    LET adjustedIntensity == intensity IN
    CASE mood \in {MoodFrightened, MoodStartled} ->
            IF adjustedIntensity > 80 THEN ModifierFrantic
            ELSE IF adjustedIntensity > 50 THEN ModifierFast
            ELSE ModifierHesitant
      [] mood = MoodExcited ->
            IF adjustedIntensity > 80 THEN ModifierFrantic
            ELSE IF adjustedIntensity > 50 THEN ModifierEager
            ELSE ModifierFast
      [] mood = MoodSleepy ->
            IF adjustedIntensity > 70 THEN ModifierSlow ELSE ModifierGentle
      [] mood = MoodCautious ->
            IF adjustedIntensity > 60 THEN ModifierHesitant ELSE ModifierSlow
      [] mood = MoodHappy ->
            IF adjustedIntensity > 70 THEN ModifierEager ELSE ModifierNormal
      [] OTHER ->
            IF adjustedIntensity > 70 THEN ModifierEager
            ELSE IF adjustedIntensity < 30 THEN ModifierGentle
            ELSE ModifierNormal

intensityToModifier(intensity, mood, jitter) ==
    LET adjustedIntensity == intensity + jitter IN
    CASE mood \in {MoodFrightened, MoodStartled} ->
            IF adjustedIntensity > 80 THEN ModifierFrantic
            ELSE IF adjustedIntensity > 50 THEN ModifierFast
            ELSE ModifierHesitant
      [] mood = MoodExcited ->
            IF adjustedIntensity > 80 THEN ModifierFrantic
            ELSE IF adjustedIntensity > 50 THEN ModifierEager
            ELSE ModifierFast
      [] mood = MoodSleepy ->
            IF adjustedIntensity > 70 THEN ModifierSlow ELSE ModifierGentle
      [] mood = MoodCautious ->
            IF adjustedIntensity > 60 THEN ModifierHesitant ELSE ModifierSlow
      [] mood = MoodHappy ->
            IF adjustedIntensity > 70 THEN ModifierEager ELSE ModifierNormal
      [] OTHER ->
            IF adjustedIntensity > 70 THEN ModifierEager
            ELSE IF adjustedIntensity < 30 THEN ModifierGentle
            ELSE ModifierNormal

\* The candidate list SelectAction hands to weightedRandomChoice.
Candidates(mood, echoes) ==
    BaseCandidates(getWeightedActions(mood)) \o EchoCandidates(echoes, mood)

\* The echo tables with every weight an active echo contributes scaled where it stands.
ScaledInPlace(effects, echoes, mood) ==
    [from \in DOMAIN effects |->
        IF \E i \in 1..Len(echoes) : echoes[i].FromMood = from
        THEN LET echo == echoes[CHOOSE i \in 1..Len(echoes) : echoes[i].FromMood = from]
             IN  [effects[from] EXCEPT !.Effects =
                    [m \in DOMAIN @ |->
                        IF m # mood THEN @[m]
                        ELSE [i \in 1..Len(@[m]) |->
                                WeightedAction(@[m][i].Action,
                                               (@[m][i].Weight * echo.Strength)
                                                   \div StrengthFull)]]]
        ELSE effects[from]]

\* Mutant: the modifier is taken from the default branch, whatever the mood.
SelectAction_moodBlind(u, jitter) ==
    LET echoes  == ActiveEchoes(moodHistory, now)
        actions == Candidates(CurrentMood, echoes)
    IN  /\ last' = [Call("SelectAction", "", 0, FALSE) EXCEPT !.out =
                       [action     |-> weightedRandomChoice(actions, u),
                        modifier   |-> intensityToModifier(Intensity, MoodCurious, jitter),
                        candidates |-> actions,
                        echoes     |-> echoes,
                        draw       |-> u,
                        jitter     |-> jitter]]
        /\ UNCHANGED tables
        /\ UNCHANGED <<stateVars, moodHistory, decayCount, scenario, recorded>>

\* Mutant: the first draw leaks into the emotional state.
SelectAction_leaking(u, jitter) ==
    LET echoes  == ActiveEchoes(moodHistory, now)
        actions == Candidates(CurrentMood, echoes)
    IN  /\ last' = [Call("SelectAction", "", 0, FALSE) EXCEPT !.out =
                       [action     |-> weightedRandomChoice(actions, u),
                        modifier   |-> intensityToModifier(Intensity, CurrentMood, jitter),
                        candidates |-> actions,
                        echoes     |-> echoes,
                        draw       |-> u,
                        jitter     |-> jitter]]
        /\ Intensity' = IF u = 0 THEN IntensityLow ELSE Intensity
        /\ UNCHANGED tables
        /\ UNCHANGED <<CurrentMood, EnteredAt, baseline>>
        /\ UNCHANGED <<moodHistory, decayCount, scenario, recorded>>

\* Mutant: the echo weight is scaled in the echo table's own entry.
SelectAction_inPlace(u, jitter) ==
    LET echoes  == ActiveEchoes(moodHistory, now)
        actions == Candidates(CurrentMood, echoes)
    IN  /\ last' = [Call("SelectAction", "", 0, FALSE) EXCEPT !.out =
                       [action     |-> weightedRandomChoice(actions, u),
                        modifier   |-> intensityToModifier(Intensity, CurrentMood, jitter),
                        candidates |-> actions,
                        echoes     |-> echoes,
                        draw       |-> u,
                        jitter     |-> jitter]]
        /\ tables' = [tables EXCEPT !.effects = ScaledInPlace(@, echoes, CurrentMood)]
        /\ UNCHANGED <<stateVars, moodHistory, decayCount, scenario, recorded>>

\* u and jitter are the two draws from the engine's generator.  The only
\* writes are to the local slice `actions`: it is a copy of the mood's table,
\* or, for a mood without a table, the curious table's own slice, whose
\* capacity is its length, so that append copies it before it writes.
SelectAction(u, jitter) ==
    LET echoes  == ActiveEchoes(moodHistory, now)
        actions == Candidates(CurrentMood, echoes)
    IN  /\ last' = [Call("SelectAction", "", 0, FALSE) EXCEPT !.out =
                       [action     |-> weightedRandomChoice(actions, u),
                        modifier   |-> intensityToModifier(Intensity, CurrentMood, jitter),
                        candidates |-> actions,
                        echoes     |-> echoes,
                        draw       |-> u,
                        jitter     |-> jitter]]
        /\ UNCHANGED tables
        /\ UNCHANGED <<stateVars, moodHistory, decayCount, scenario, recorded>>

----------------------------------------------------------------------------
(* Variation engine: micro-behaviours *)

\* Duration in milliseconds, weight in tenths.
WeightedMicroBehavior(name, duration, weight) ==
    [Behavior |-> [Name |-> name, Duration |-> duration], Weight |-> weight]

microBehaviors ==
    [ curious |-> <<
          WeightedMicroBehavior("ear_twitch", 200, 30),
          WeightedMicroBehavior("look_around", 500, 20),
          WeightedMicroBehavior("sniff", 300, 20),
          WeightedMicroBehavior("weight_shift", 400, 15),
          WeightedMicroBehavior("tail_flick", 150, 10) >>,
      happy |-> <<
          WeightedMicroBehavior("tail_wag_small", 300, 40),
          WeightedMicroBehavior("ear_perk", 200, 20),
          WeightedMicroBehavior("wiggle", 400, 20),
          WeightedMicroBehavior("happy_sigh", 500, 10) >>,
      excited |-> <<
          WeightedMicroBehavior("bounce_small", 250, 40),
          WeightedMicroBehavior("tail_wag_fast", 200, 30),
          WeightedMicroBehavior("spin_partial", 400, 20),
          WeightedMicroBehavior("eager_lean", 300, 20) >>,
      sleepy |-> <<
          WeightedMicroBehavior("slow_blink", 800, 40),
          WeightedMicroBehavior("yawn_small", 600, 20),
          WeightedMicroBehavior("head_droop", 700, 20),
          WeightedMicroBehavior("sleepy_sigh", 500, 15),
          WeightedMicroBehavior("ear_droop", 300, 10) >>,
      cautious |-> <<
          WeightedMicroBehavior("ear_swivel", 250, 40),
          WeightedMicroBehavior("freeze_brief", 400, 20),
          WeightedMicroBehavior("low_crouch", 350, 20),
          WeightedMicroBehavior("nervous_glance", 300, 30),
          WeightedMicroBehavior("tail_tuck_partial", 200, 15) >>,
      startled |-> <<
          WeightedMicroBehavior("flinch", 150, 40),
          WeightedMicroBehavior("ears_back_quick", 100, 30),
          WeightedMicroBehavior("gasp", 200, 20),
          WeightedMicroBehavior("freeze_tense", 300, 20) >>,
      frightened |-> <<
          WeightedMicroBehavior("tremble", 400, 40),
          WeightedMicroBehavior("whimper_soft", 300, 30),
          WeightedMicroBehavior("shrink", 350, 20),
          WeightedMicroBehavior("eyes_dart", 250, 20),
          WeightedMicroBehavior("tail_between_legs", 200, 15) >> ]

\* rng.Float64() < 0.3 for the draw p / DrawGrid
PauseDrawn(p) == 10 * p < 3 * DrawGrid

\* Mutant: a mood without a table borrows the curious one.
MicroChoice_borrowing(mood, p, u) ==
    IF PauseDrawn(p)
    THEN <<>>
    ELSE LET behaviors   == IF mood \in DOMAIN microBehaviors
                            THEN microBehaviors[mood]
                            ELSE microBehaviors[MoodCurious]
             totalWeight == Cumulative(behaviors, Len(behaviors))
             reached     == {i \in 1..Len(behaviors) :
                                DrawReaches(u, totalWeight, Cumulative(behaviors, i))}
         IN  IF reached = {}
             THEN <<behaviors[1].Behavior>>
             ELSE <<behaviors[CHOOSE i \in reached : \A k \in reached : i <= k].Behavior>>

\* The result of SelectMicroBehavior: <<>> is nil, <<b>> a behaviour.
MicroChoice(mood, p, u) ==
    IF PauseDrawn(p)
    THEN <<>>
    ELSE IF mood \notin DOMAIN microBehaviors \/ Len(microBehaviors[mood]) = 0
    THEN <<>>
    ELSE LET behaviors   == microBehaviors[mood]
             totalWeight == Cumulative(behaviors, Len(behaviors))
             reached     == {i \in 1..Len(behaviors) :
                                DrawReaches(u, totalWeight, Cumulative(behaviors, i))}
         IN  IF reached = {}
             THEN <<behaviors[1].Behavior>>
             ELSE <<behaviors[CHOOSE i \in reached : \A k \in reached : i <= k].Behavior>>

\* The draws a call makes: the second one only when a behaviour is chosen.
MicroDraws(mood, p, u) ==
    IF PauseDrawn(p) THEN <<p>>
    ELSE IF mood \notin DOMAIN microBehaviors \/ Len(microBehaviors[mood]) = 0
    THEN <<p>>
    ELSE <<p, u>>

\* p and u are the two draws from the engine's generator.
SelectMicroBehavior(mood, p, u) ==
    /\ last' = [Call("SelectMicroBehavior", "", 0, FALSE) EXCEPT !.out =
                   [micro |-> MicroChoice(mood, p, u), mood |-> mood,
                    draws |-> MicroDraws(mood, p, u)]]
    /\ UNCHANGED <<stateVars, moodHistory, decayCount, scenario, recorded>>

----------------------------------------------------------------------------
(* The library used without the command-line program *)

\* handleInput is not running.
NoFrame == [event |-> "", hint |-> 0, oldMood |-> "", changed |-> FALSE]

\* The package-level tables as their initialisers leave them.
NewTables == tables = [weighted |-> weightedMoodActions, effects |-> echoEffects]

\* A twin that is never fed.
NoTwin == [CurrentMood |-> "", Intensity |-> 0, EnteredAt |-> 0]

\* No enrollment server, no recognition running.
NoServer ==
    /\ activeSession = 0
    /\ sessions = <<>>
    /\ requests = <<>>
    /\ sightings = <<>>

\* No second state and no face database are in play.
Standalone ==
    /\ NewTables
    /\ twin = NoTwin
    /\ people = <<>>
    /\ enrollers = <<>>
    /\ NoServer

\* No main goroutine, no reader, no tickers: the library is called directly.
NoApp ==
    /\ pc = "library"
    /\ inputChan = [closed |-> FALSE, sending |-> <<>>]
    /\ app = [useLLM |-> FALSE, llmClient |-> FALSE, engine |-> FALSE]
    /\ frame = NoFrame
    /\ tickers = [decay |-> FALSE, micro |-> FALSE]
    /\ tally = [read |-> 0, handled |-> 0, chosen |-> 0]

----------------------------------------------------------------------------
(* Specification of the emotional state under events, decay ticks and time *)

Init ==
    /\ now = 0
    /\ NewEmotionalState
    /\ NewVariationEngine
    /\ last = NoCall("New")
    /\ decayCount = 0
    /\ scenario = <<>>
    /\ recorded = <<>>
    /\ NoApp
    /\ Standalone

EventStep ==
    /\ \E e \in Event, h \in Hints : ProcessEvent(WithIntensity(NewEventContext(e), h))
    /\ UNCHANGED <<now, moodHistory, recorded>>
    /\ UNCHANGED <<cliVars, tables, sideVars>>

DecayStep ==
    /\ Decay
    /\ UNCHANGED <<now, moodHistory, recorded>>
    /\ UNCHANGED <<cliVars, tables, sideVars>>

ClockStep ==
    /\ \E d \in {TimeStep, LongStep} : now + d <= MaxTime /\ Advance(d)
    /\ UNCHANGED <<cliVars, tables, sideVars>>

Next == EventStep \/ DecayStep \/ ClockStep

Spec == Init /\ [][Next]_vars

----------------------------------------------------------------------------
(* Specification of decay alone: any mood, held for a while, no events *)

\* The state after SetMood(mood, tier), or after the fields were assigned
\* directly, found a little later.
InitDecay ==
    /\ EnteredAt = 0
    /\ now \in 0..(DwellStep - 1)
    /\ CurrentMood \in Mood
    /\ Intensity \in {IntensityLow, IntensityMedium, IntensityHigh}
    /\ baseline = MoodCurious
    /\ NewVariationEngine
    /\ last = NoCall("New")
    /\ decayCount = 0
    /\ scenario = <<>>
    /\ recorded = <<>>
    /\ NoApp
    /\ Standalone

DwellClockStep == Duration < MaxDwell /\ Advance(DwellStep) /\ UNCHANGED <<cliVars, tables, sideVars>>

NextDecay == DecayStep \/ DwellClockStep

SpecDecay == InitDecay /\ [][NextDecay]_vars

\* The CLI's decay ticker calls Decay every second, and time passes.
LiveSpecDecay == SpecDecay /\ WF_vars(DecayStep) /\ WF_vars(DwellClockStep)

----------------------------------------------------------------------------
(* Specification of the echo ledger *)

\* Origins offered to RecordMoodChange: one with an echo window, one without.
RecordMoods == {MoodFrightened, MoodCurious}

RecordStep ==
    /\ Len(recorded) < MaxRecords
    /\ \E m \in RecordMoods : RecordMoodChange(m)
    /\ UNCHANGED <<cliVars, tables, sideVars>>

EchoClockStep == now < MaxEchoTime /\ Advance(1) /\ UNCHANGED <<cliVars, tables, sideVars>>

NextEcho == RecordStep \/ EchoClockStep

SpecEcho == Init /\ [][NextEcho]_vars

----------------------------------------------------------------------------
(* Specification of the variation engine: records, queries and selections *)

\* Mood is a string type: a state may hold a mood that no table knows.
UnknownMood == "grumpy"

\* Current moods of the variation runs: with echo effects of both origins
\* (curious, cautious), of one origin (happy), and without any table.
VarInitMoods == {MoodCurious, MoodCautious, MoodHappy, UnknownMood}

\* An emotional state built directly, as the variation tests build it.
InitVar ==
    /\ now = 0
    /\ EnteredAt = 0
    /\ CurrentMood \in VarInitMoods
    /\ Intensity = IntensityMedium
    /\ baseline = MoodCurious
    /\ NewVariationEngine
    /\ last = NoCall("New")
    /\ decayCount = 0
    /\ scenario = <<>>
    /\ recorded = <<>>
    /\ NoApp
    /\ Standalone

\* Origins offered to RecordMoodChange: windows of 45 s and 20 s, and none.
VarMoods == {MoodFrightened, MoodStartled, MoodSleepy}

VarRecordStep ==
    /\ Len(recorded) < MaxVarRecords
    /\ \E m \in VarMoods : RecordMoodChange(m)
    /\ UNCHANGED <<cliVars, tables, sideVars>>

QueryStep ==
    /\ GetActiveEchoes
    /\ UNCHANGED now
    /\ UNCHANGED <<cliVars, tables, sideVars>>

\* The two ends of the jitter range.
VarJitters == {-10, 9}

SelectStep ==
    /\ \E u \in Draws, jitter \in VarJitters : SelectAction(u, jitter)
    /\ UNCHANGED now
    /\ UNCHANGED <<cliVars, sideVars>>

VarClockStep ==
    /\ \E d \in {VarStep, VarStep + 1} : now + d <= MaxVarTime /\ Advance(d)
    /\ UNCHANGED <<cliVars, tables, sideVars>>

NextVar == VarRecordStep \/ QueryStep \/ SelectStep \/ VarClockStep

SpecVar == InitVar /\ [][NextVar]_vars

----------------------------------------------------------------------------
(* Specification of weighted selection as a function of its inputs *)

ChoiceActions == {ActionStay, ActionPeek, ActionFlee}

ChoiceWeights == {0, 10, 30}

ChoiceStep ==
    /\ last.op = "New"
    /\ \E n \in 0..MaxChoiceLen :
         \E actions \in [1..n -> [Action : ChoiceActions, Weight : ChoiceWeights]] :
           \E u \in Draws :
             last' = [NoCall("weightedRandomChoice") EXCEPT !.out =
                         [action     |-> weightedRandomChoice(actions, u),
                          candidates |-> actions,
                          draw       |-> u]]
    /\ UNCHANGED <<stateVars, now, moodHistory, decayCount, scenario, recorded>>
    /\ UNCHANGED <<cliVars, tables, sideVars>>

SpecChoice == Init /\ [][ChoiceStep]_vars

----------------------------------------------------------------------------
(* Specification of the emotional state and the echo ledger side by side *)

LibEvents == {EventLoudNoise, EventPetted}

\* Mutant: a mood change by ProcessEvent records an echo of the old mood.
LibEventStep_recording ==
    /\ \E e \in LibEvents : ProcessEvent(NewEventContext(e))
    /\ moodHistory' = IF last'.ret
                      THEN Evict(Append(moodHistory, MoodEcho(CurrentMood, now, StrengthFull)))
                      ELSE moodHistory
    /\ UNCHANGED <<now, recorded>>
    /\ UNCHANGED <<cliVars, tables, sideVars>>

LibEventStep ==
    /\ \E e \in LibEvents : ProcessEvent(NewEventContext(e))
    /\ UNCHANGED <<now, moodHistory, recorded>>
    /\ UNCHANGED <<cliVars, tables, sideVars>>

LibRecordStep ==
    /\ Len(recorded) < MaxLibRecords
    /\ RecordMoodChange(MoodStartled)
    /\ UNCHANGED <<cliVars, tables, sideVars>>

LibQueryStep ==
    /\ GetActiveEchoes
    /\ UNCHANGED now
    /\ UNCHANGED <<cliVars, tables, sideVars>>

LibClockStep == now + LibStep <= MaxLibTime /\ Advance(LibStep) /\ UNCHANGED <<cliVars, tables, sideVars>>

NextLib == LibEventStep \/ DecayStep \/ LibRecordStep \/ LibQueryStep \/ LibClockStep

SpecLib == Init /\ [][NextLib]_vars

----------------------------------------------------------------------------
(* LLM personality engine: selection with validation and fallback *)

\* Every action name of the vocabulary.
AllActions ==
    UNION {{moodActions[m][i] : i \in 1..Len(moodActions[m])} : m \in DOMAIN moodActions}
        \cup {ActionFlinch, ActionSniff}

\* What the LLM call can produce: GenerateJSON fails (transport error or
\* the context deadline), text that holds no JSON object, or a JSON object
\* (bare or wrapped in extra text) whose "action" is any string.
LLMReply(kind, action) == [kind |-> kind, action |-> action]

LLMReplies ==
    {LLMReply(k, "") : k \in {"unreachable", "deadline", "text"}}
        \cup {LLMReply(k, a) : k \in {"json", "wrapped"}, a \in AllActions \cup {"", "dance"}}

ActionResponse(action, reason) == [Action |-> action, Reason |-> reason]

\* Mutant: every action string passes the validation.
IsAvailable_any(mood, action) == TRUE

\* The loop over req.EmotionalState.AvailableActions().
IsAvailable(mood, action) ==
    \E i \in 1..Len(AvailableActions(mood)) : AvailableActions(mood)[i] = action

\* Mutant: the fallback takes the sound of the default set.
DefaultResponse_sound(mood, reason) ==
    ActionResponse(SuggestDefaultAction(mood).Sound, reason)

\* The response built from the mood's default action set.
DefaultResponse(mood, reason) ==
    ActionResponse(SuggestDefaultAction(mood).Movement, reason)

\* PersonalityEngine.SelectAction: err is "" when a response is returned.
EngineSelectAction(mood, reply) ==
    IF reply.kind \in {"unreachable", "deadline"}
    THEN [err  |-> "generating response: "
                      \o (IF reply.kind = "deadline"
                          THEN "context deadline exceeded"
                          ELSE "connection refused"),
          resp |-> ActionResponse("", "")]
    ELSE IF reply.kind = "text"
    THEN [err |-> "parsing response: " \o "invalid character", resp |-> ActionResponse("", "")]
    ELSE IF ~IsAvailable(mood, reply.action)
    THEN [err  |-> "",
          resp |-> DefaultResponse(mood, "fallback - LLM chose invalid action")]
    ELSE [err |-> "", resp |-> ActionResponse(reply.action, "reason of the LLM")]

\* PersonalityEngine.SelectAction called on its own: a response or an error.
EngineSelectActionCall(reply) ==
    /\ last' = [Call("PersonalityEngine.SelectAction", "", 0, FALSE) EXCEPT !.out =
                   [reply |-> reply, got |-> EngineSelectAction(CurrentMood, reply)]]
    /\ UNCHANGED <<stateVars, moodHistory, decayCount, scenario, recorded>>

\* Mutant: a failed request calms the pet down to its baseline mood.
SelectActionWithFallback_calming(reply) ==
    LET got == EngineSelectAction(CurrentMood, reply)
        resp == IF got.err # ""
                THEN DefaultResponse(CurrentMood, "fallback: " \o got.err)
                ELSE got.resp
    IN  /\ last' = [Call("SelectActionWithFallback", "", 0, FALSE) EXCEPT !.out =
                       [reply |-> reply, Action |-> resp.Action, Reason |-> resp.Reason]]
        /\ CurrentMood' = IF got.err # "" THEN baseline ELSE CurrentMood
        /\ UNCHANGED <<Intensity, EnteredAt, baseline>>
        /\ UNCHANGED <<moodHistory, decayCount, scenario, recorded>>

SelectActionWithFallback(reply) ==
    LET got == EngineSelectAction(CurrentMood, reply)
        resp == IF got.err # ""
                THEN DefaultResponse(CurrentMood, "fallback: " \o got.err)
                ELSE got.resp
    IN  /\ last' = [Call("SelectActionWithFallback", "", 0, FALSE) EXCEPT !.out =
                       [reply |-> reply, Action |-> resp.Action, Reason |-> resp.Reason]]
        /\ UNCHANGED <<stateVars, moodHistory, decayCount, scenario, recorded>>

InitLLM ==
    /\ now = 0
    /\ EnteredAt = 0
    /\ CurrentMood \in Mood \cup {UnknownMood}
    /\ Intensity \in {IntensityLow, IntensityMedium, IntensityHigh}
    /\ baseline = MoodCurious
    /\ NewVariationEngine
    /\ last = NoCall("New")
    /\ decayCount = 0
    /\ scenario = <<>>
    /\ recorded = <<>>
    /\ NoApp
    /\ Standalone

LLMStep ==
    /\ \E reply \in LLMReplies : SelectActionWithFallback(reply)
    /\ UNCHANGED now
    /\ UNCHANGED <<cliVars, tables, sideVars>>

SpecLLM == InitLLM /\ [][LLMStep]_vars

----------------------------------------------------------------------------
(* cmd/koji: the interactive simulator *)

DecayPeriod == 1    \* decayTicker, in seconds
MicroPeriod == 3    \* microTicker, in seconds
LLMTimeout  == 30   \* the context of one LLM request, in seconds

libVars == <<stateVars, now, moodHistory, last, decayCount, scenario, recorded>>

\* A typed line is the sequence of the words it holds; "" is <<>>.
CliLines == { <<>>, <<"quit">>, <<"llm">>, <<"xyzzy">>, <<"loud", "!">>, <<"pet">> }

contains(input, options) == \E i \in 1..Len(input) : input[i] \in options

IsNotBang(word) == word # "!"

parseEvent(line) ==
    LET input == SelectSeq(line, IsNotBang) IN
    IF contains(input, {"loud", "bang", "noise", "crash"}) THEN EventLoudNoise
    ELSE IF contains(input, {"music", "song"}) THEN EventMusic
    ELSE IF contains(input, {"rhythm", "beat", "bop"}) THEN EventRhythm
    ELSE IF contains(input, {"familiar", "owner", "friend"}) THEN EventFamiliarFace
    ELSE IF contains(input, {"stranger", "unknown face", "who"}) THEN EventUnknownFace
    ELSE IF contains(input, {"face"}) THEN EventFamiliarFace
    ELSE IF contains(input, {"motion", "movement", "moving"}) THEN EventMotionDetected
    ELSE IF contains(input, {"object", "thing", "new", "whats that"}) THEN EventUnknownObject
    ELSE IF contains(input, {"pet", "petted", "stroke"}) THEN EventPetted
    ELSE IF contains(input, {"poke", "poked", "tap"}) THEN EventPoked
    ELSE IF contains(input, {"silence", "quiet", "nothing"}) THEN EventSilence
    ELSE IF contains(input, {"wait", "time", "pass"}) THEN EventTimePassedLong
    ELSE ""

\* The intensity modifier of a line, in hundredths.
HintOf(input) ==
    IF contains(input, {"!", "loud"}) THEN 90
    ELSE IF contains(input, {"soft", "quiet"}) THEN 20
    ELSE DefaultHint

IsCommand(input, names) == Len(input) = 1 /\ input[1] \in names

\* What main leaves in app: the LLM connected, the LLM unreachable or its
\* model missing, and -no-llm.
AppConfigs ==
    { [useLLM |-> TRUE,  llmClient |-> TRUE,  engine |-> TRUE],
      [useLLM |-> FALSE, llmClient |-> TRUE,  engine |-> FALSE],
      [useLLM |-> FALSE, llmClient |-> FALSE, engine |-> FALSE] }

toggleLLM == IF app.llmClient THEN [app EXCEPT !.useLLM = ~@] ELSE app

\* The branch of selectAndPrintAction.
LLMMode == app.useLLM /\ app.engine

\* A ticker drops a tick when one is already waiting.
TickAfter(d) ==
    [decay |-> tickers.decay \/ d >= DecayPeriod,
     micro |-> tickers.micro \/ d >= MicroPeriod]

CliDraws == {0, 5}

CliReplies ==
    { LLMReply("unreachable", ""), LLMReply("deadline", ""), LLMReply("text", ""),
      LLMReply("json", ActionFreeze), LLMReply("json", "dance") }

\* Seconds an answered request takes.
RequestDurations == {0, TickStep}

\* Mutant: only the HTTP client bounds the request, and it gives up later.
RequestTime_late(reply, d) ==
    IF reply.kind = "deadline" THEN LLMTimeout + TickStep ELSE d

\* The request ends when it is answered or when its context expires.
RequestTime(reply, d) ==
    IF reply.kind = "deadline" THEN LLMTimeout ELSE d

InitCLI ==
    /\ now = 0
    /\ NewEmotionalState
    /\ NewVariationEngine
    /\ last = NoCall("New")
    /\ decayCount = 0
    /\ scenario = <<>>
    /\ recorded = <<>>
    /\ pc = "select"
    /\ inputChan = [closed |-> FALSE, sending |-> <<>>]
    /\ app \in AppConfigs
    /\ frame = NoFrame
    /\ tickers = [decay |-> FALSE, micro |-> FALSE]
    /\ tally = [read |-> 0, handled |-> 0, chosen |-> 0]
    /\ Standalone

\* readInput: a line is scanned and offered on the channel.
ReadLine ==
    /\ pc # "exited"
    /\ ~inputChan.closed
    /\ inputChan.sending = <<>>
    /\ tally.read < MaxInputs
    /\ \E line \in CliLines : inputChan' = [inputChan EXCEPT !.sending = <<line>>]
    /\ tally' = [tally EXCEPT !.read = @ + 1]
    /\ UNCHANGED <<libVars, pc, app, frame, tickers>>
    /\ UNCHANGED <<tables, sideVars>>

\* readInput: standard input ends, the channel is closed.
ReadEOF ==
    /\ pc # "exited"
    /\ ~inputChan.closed
    /\ inputChan.sending = <<>>
    /\ inputChan' = [inputChan EXCEPT !.closed = TRUE]
    /\ UNCHANGED <<libVars, pc, app, frame, tickers, tally>>
    /\ UNCHANGED <<tables, sideVars>>

\* case input := <-inputChan, and handleInput up to the call of ProcessEvent.
ReceiveInput ==
    /\ pc = "select"
    /\ inputChan.sending # <<>>
    /\ inputChan' = [inputChan EXCEPT !.sending = <<>>]
    /\ LET input == inputChan.sending[1] IN
         IF input = <<>>
         THEN /\ last' = NoCall("select")
              /\ UNCHANGED <<pc, app, frame, tally>>
         ELSE /\ last' = NoCall("handleInput")
              /\ IF IsCommand(input, {"quit", "exit", "q"})
                 THEN pc' = "exited" /\ UNCHANGED <<app, frame, tally>>
                 ELSE IF IsCommand(input, {"help", "?", "status", "s", "actions", "a"})
                 THEN UNCHANGED <<pc, app, frame, tally>>
                 ELSE IF IsCommand(input, {"llm"})
                 THEN app' = toggleLLM /\ UNCHANGED <<pc, frame, tally>>
                 ELSE IF parseEvent(input) = ""
                 THEN UNCHANGED <<pc, app, frame, tally>>
                 ELSE /\ frame' = [NoFrame EXCEPT !.event = parseEvent(input),
                                                  !.hint = HintOf(input)]
                      /\ tally' = [tally EXCEPT !.handled = @ + 1]
                      /\ pc' = "event"
                      /\ UNCHANGED app
    /\ UNCHANGED <<stateVars, now, moodHistory, decayCount, scenario, recorded, tickers>>
    /\ UNCHANGED <<tables, sideVars>>

\* case input := <-inputChan on the closed channel: "" is received.
ReceiveClosed ==
    /\ pc = "select"
    /\ inputChan.closed
    /\ last' = NoCall("select")
    /\ UNCHANGED <<stateVars, now, moodHistory, decayCount, scenario, recorded, cliVars>>
    /\ UNCHANGED <<tables, sideVars>>

\* Mutant: the decay ticker is served by a goroutine of its own.
DecayCaseReady_ownGoroutine == pc # "exited" /\ tickers.decay

\* The main goroutine is at the select statement and a decay tick waits.
DecayCaseReady == pc = "select" /\ tickers.decay

\* case <-decayTicker.C
DecayTick ==
    /\ DecayCaseReady
    /\ Decay
    /\ tickers' = [tickers EXCEPT !.decay = FALSE]
    /\ UNCHANGED <<now, moodHistory, recorded, pc, inputChan, app, frame, tally>>
    /\ UNCHANGED <<tables, sideVars>>

\* case <-microTicker.C
MicroTick ==
    /\ pc = "select"
    /\ tickers.micro
    /\ tickers' = [tickers EXCEPT !.micro = FALSE]
    /\ IF ~app.useLLM
       THEN \E p \in CliDraws, u \in CliDraws : SelectMicroBehavior(CurrentMood, p, u)
       ELSE /\ last' = NoCall("microTick")
            /\ UNCHANGED <<stateVars, moodHistory, decayCount, scenario, recorded>>
    /\ UNCHANGED <<now, pc, inputChan, app, frame, tally>>
    /\ UNCHANGED <<tables, sideVars>>

\* handleInput: oldMood := CurrentMood; changed := ProcessEvent(ctx)
HandleProcess ==
    /\ pc = "event"
    /\ ProcessEvent(WithIntensity(NewEventContext(frame.event), frame.hint))
    /\ frame' = [frame EXCEPT !.oldMood = CurrentMood, !.changed = last'.ret]
    /\ pc' = IF last'.ret THEN "record" ELSE "choose"
    /\ UNCHANGED <<now, moodHistory, recorded, inputChan, app, tickers, tally>>
    /\ UNCHANGED <<tables, sideVars>>

\* Mutant: the echo is recorded from the mood the event led to.
HandleRecord_newMood ==
    /\ pc = "record"
    /\ RecordMoodChange(CurrentMood)
    /\ pc' = "choose"
    /\ UNCHANGED <<inputChan, app, frame, tickers, tally>>
    /\ UNCHANGED <<tables, sideVars>>

\* handleInput: if changed { RecordMoodChange(oldMood) }
HandleRecord ==
    /\ pc = "record"
    /\ RecordMoodChange(frame.oldMood)
    /\ pc' = "choose"
    /\ UNCHANGED <<inputChan, app, frame, tickers, tally>>
    /\ UNCHANGED <<tables, sideVars>>

\* selectAndPrintAction, LLM branch: the request and its answer or its end.
HandleChooseLLM ==
    /\ pc = "choose"
    /\ LLMMode
    /\ \E reply \in CliReplies, d \in RequestDurations :
         /\ SelectActionWithFallback(reply)
         /\ now' = now + RequestTime(reply, d)
         /\ tickers' = TickAfter(RequestTime(reply, d))
    /\ frame' = NoFrame
    /\ tally' = [tally EXCEPT !.chosen = @ + 1]
    /\ pc' = "select"
    /\ UNCHANGED <<inputChan, app>>
    /\ UNCHANGED <<tables, sideVars>>

\* selectAndPrintAction, variation branch: SelectAction
HandleChooseVar ==
    /\ pc = "choose"
    /\ ~LLMMode
    /\ \E u \in CliDraws : SelectAction(u, 0)
    /\ tally' = [tally EXCEPT !.chosen = @ + 1]
    /\ pc' = "echoes"
    /\ UNCHANGED <<now, inputChan, app, frame, tickers>>
    /\ UNCHANGED sideVars

\* selectAndPrintAction, variation branch: GetActiveEchoes
HandleEchoes ==
    /\ pc = "echoes"
    /\ GetActiveEchoes
    /\ pc' = "micro"
    /\ UNCHANGED <<now, inputChan, app, frame, tickers, tally>>
    /\ UNCHANGED <<tables, sideVars>>

\* selectAndPrintAction, variation branch: SelectMicroBehavior
HandleMicro ==
    /\ pc = "micro"
    /\ \E p \in CliDraws, u \in CliDraws : SelectMicroBehavior(CurrentMood, p, u)
    /\ pc' = "select"
    /\ frame' = NoFrame
    /\ UNCHANGED <<now, inputChan, app, tickers, tally>>
    /\ UNCHANGED <<tables, sideVars>>

\* Time passes while the main goroutine waits in select.
CliClockStep ==
    /\ pc = "select"
    /\ now + TickStep <= MaxCliTime
    /\ Advance(TickStep)
    /\ tickers' = TickAfter(TickStep)
    /\ UNCHANGED <<pc, inputChan, app, frame, tally>>
    /\ UNCHANGED <<tables, sideVars>>

NextCLI ==
    \/ ReadLine \/ ReadEOF
    \/ ReceiveInput \/ ReceiveClosed
    \/ DecayTick \/ MicroTick
    \/ HandleProcess \/ HandleRecord
    \/ HandleChooseLLM \/ HandleChooseVar \/ HandleEchoes \/ HandleMicro
    \/ CliClockStep

SpecCLI == InitCLI /\ [][NextCLI]_vars

\* The main goroutine keeps running: a started handleInput runs to its end.
HandleStep ==
    \/ HandleProcess \/ HandleRecord
    \/ HandleChooseLLM \/ HandleChooseVar \/ HandleEchoes \/ HandleMicro

LiveSpecCLI == SpecCLI /\ WF_vars(HandleStep)

----------------------------------------------------------------------------
(* Properties *)

\* The transition table has an entry for (event, mood).
HasRule(event, mood) ==
    /\ event \in DOMAIN transitionTable
    /\ mood \in DOMAIN transitionTable[event]

Rule(event, mood) == transitionTable[event][mood]

\* The tier an intensity hint selects, given the tier of the rule.
TierFor(hint, ruleTier) ==
    CASE hint > 70 -> 90
      [] hint < 30 -> 30
      [] OTHER     -> ruleTier

Unchanged ==
    /\ CurrentMood = last.oldMood
    /\ Intensity = last.oldIntensity
    /\ EnteredAt = last.oldEnteredAt

\* C1: when the table has an entry for (event, current mood), ProcessEvent
\* sets the mood to the entry's new mood and returns true exactly when that
\* mood differs from the old one (a rule that keeps the mood returns false).
C1_ProcessEventFollowsRule ==
    (last.op = "ProcessEvent" /\ HasRule(last.event, last.oldMood)) =>
        /\ CurrentMood = Rule(last.event, last.oldMood).NewMood
        /\ last.ret = (CurrentMood # last.oldMood)

C1_Witness ==
    /\ last.op = "ProcessEvent"
    /\ HasRule(last.event, last.oldMood)
    /\ last.oldMood = MoodHappy
    /\ CurrentMood = MoodExcited
    /\ last.ret

\* C2: for every (event, mood) pair absent from the table, whether the event
\* has no entry at all or only the mood is missing, ProcessEvent returns
\* false and leaves mood, intensity and entry timestamp unchanged.
C2_NoRuleNoChange ==
    (last.op = "ProcessEvent" /\ ~HasRule(last.event, last.oldMood)) =>
        (~last.ret /\ Unchanged)

C2_Witness ==
    /\ last.op = "ProcessEvent"
    /\ last.event = EventPoked
    /\ last.oldMood = MoodFrightened
    /\ ~last.ret
    /\ EnteredAt < now

\* C3: Decay does nothing and returns false while the mood is the baseline,
\* however long it was held, or was held for less than its dwell threshold;
\* otherwise it moves the mood one step, to its decay successor, and
\* returns true.
C3_DecayThreshold ==
    last.op = "Decay" =>
        IF \/ last.oldMood = MoodCurious
           \/ now - last.oldEnteredAt < decayTimes[last.oldMood]
        THEN ~last.ret /\ Unchanged
        ELSE /\ last.ret
             /\ CurrentMood = decayPaths[last.oldMood]
             /\ CurrentMood # last.oldMood

C3_Witness ==
    /\ last.op = "Decay"
    /\ last.oldMood = MoodSleepy
    /\ now - last.oldEnteredAt = 60
    /\ CurrentMood = MoodCurious
    /\ last.ret

\* C4: with no events arriving, decay ticks made as time passes bring any
\* mood to the baseline after at most 2 mood changes, and the mood then
\* stays at the baseline.
C4_DecayReachesBaseline ==
    /\ [](decayCount <= 2 /\ (decayCount = 2 => CurrentMood = MoodCurious))
    /\ <>[](CurrentMood = MoodCurious)

C4_Witness ==
    /\ decayCount = 2
    /\ CurrentMood = MoodCurious
    /\ last.op = "Decay"
    /\ last.oldMood = MoodHappy

\* C5: a rule that maps the mood to itself reports false but commits the
\* intensity and resets the entry timestamp, so the dwell time restarts; an
\* event with no rule reports false and leaves the timestamp alone.
C5_SelfRuleRestartsDwell ==
    last.op = "ProcessEvent" =>
        IF HasRule(last.event, last.oldMood)
        THEN Rule(last.event, last.oldMood).NewMood = last.oldMood =>
                /\ ~last.ret
                /\ CurrentMood = last.oldMood
                /\ Intensity = TierFor(last.hint, Rule(last.event, last.oldMood).Intensity)
                /\ EnteredAt = now
                /\ Duration = 0
        ELSE /\ ~last.ret
             /\ EnteredAt = last.oldEnteredAt

C5_Witness ==
    /\ last.op = "ProcessEvent"
    /\ last.event = EventLoudNoise
    /\ last.oldMood = MoodFrightened
    /\ CurrentMood = MoodFrightened
    /\ last.oldEnteredAt < now
    /\ EnteredAt = now
    /\ ~last.ret

\* C6: when a rule is found, the committed intensity is high for a hint
\* above 0.7, low for a hint below 0.3, and the rule's tier for a hint in
\* [0.3, 0.7].
C6_IntensityFromHint ==
    (last.op = "ProcessEvent" /\ HasRule(last.event, last.oldMood)) =>
        Intensity = TierFor(last.hint, Rule(last.event, last.oldMood).Intensity)

C6_Witness ==
    /\ last.op = "ProcessEvent"
    /\ HasRule(last.event, last.oldMood)
    /\ last.hint = 70
    /\ Rule(last.event, last.oldMood).Intensity = 60
    /\ Intensity = 60

\* C7: a Decay that changes the mood sets the intensity to the larger of
\* (previous intensity - 0.2) and low, and resets the entry timestamp;
\* frightened/high entered 16 s ago becomes cautious at 0.7.
C7_DecayIntensity ==
    (last.op = "Decay" /\ last.ret) =>
        /\ Intensity = IF last.oldIntensity - 20 > 30 THEN last.oldIntensity - 20 ELSE 30
        /\ EnteredAt = now
        /\ (last.oldMood = MoodFrightened /\ last.oldIntensity = 90) =>
               (CurrentMood = MoodCautious /\ Intensity = 70)

C7_Witness ==
    /\ last.op = "Decay"
    /\ last.ret
    /\ last.oldMood = MoodFrightened
    /\ last.oldIntensity = 90
    /\ now - last.oldEnteredAt = 16
    /\ CurrentMood = MoodCautious
    /\ Intensity = 70

\* C8: from curious, two loud_noise events in a row, with no decay between
\* them, give startled and then frightened, and both report a change.
C8_LoudNoiseEscalates ==
    /\ Len(scenario) >= 1 => scenario[1] = [mood |-> MoodStartled, changed |-> TRUE]
    /\ Len(scenario) >= 2 => scenario[2] = [mood |-> MoodFrightened, changed |-> TRUE]

C8_Witness ==
    /\ Len(scenario) = 2
    /\ CurrentMood = MoodFrightened
    /\ last.op = "ProcessEvent"
    /\ last.hint = DefaultHint

\* C9: the mood is always one of the seven moods; every target of the
\* transition table and every decay successor is one of them, and every
\* mood other than the baseline has a decay successor and a dwell threshold.
C9_MoodIsValid ==
    /\ CurrentMood \in Mood
    /\ Cardinality(Mood) = 7
    /\ \A e \in DOMAIN transitionTable : \A m \in DOMAIN transitionTable[e] :
           m \in Mood /\ transitionTable[e][m].NewMood \in Mood
    /\ \A m \in DOMAIN decayPaths : m \in Mood /\ decayPaths[m] \in Mood
    /\ \A m \in Mood \ {MoodCurious} :
           m \in DOMAIN decayPaths /\ m \in DOMAIN decayTimes

C9_Witness ==
    /\ last.op = "Decay"
    /\ last.ret
    /\ last.oldMood = MoodStartled
    /\ CurrentMood = MoodCautious

\* The last n elements of a sequence.
LastN(seq, n) == SubSeq(seq, Len(seq) - n + 1, Len(seq))

\* C10: the ledger never holds more than 8 echoes; it holds the most recent
\* min(n, 8) of the n records made, in recording order, each with strength
\* 1.0, so a record made while the ledger is full evicts only the oldest.
C10_LedgerKeepsLastEight ==
    /\ Len(moodHistory) <= 8
    /\ Len(moodHistory) = (IF Len(recorded) < 8 THEN Len(recorded) ELSE 8)
    /\ moodHistory = LastN(recorded, Len(moodHistory))
    /\ \A i \in 1..Len(moodHistory) : moodHistory[i].Strength = 180

C10_Witness ==
    /\ Len(recorded) = 10
    /\ Len(moodHistory) = 8
    /\ moodHistory[1] = recorded[3]
    /\ moodHistory[1].StartedAt < moodHistory[8].StartedAt

\* The echo windows, in seconds.
Window == [frightened |-> 45, startled |-> 20, excited |-> 30, happy |-> 60]

\* The echo is reported in the list "out" with the strength num/den.
Reported(echo, out, num, den) ==
    \E k \in 1..Len(out) :
        /\ out[k].FromMood = echo.FromMood
        /\ out[k].StartedAt = echo.StartedAt
        /\ out[k].Strength * den = 180 * num
        /\ out[k].Strength > 0

Absent(echo, out) ==
    \A k \in 1..Len(out) :
        ~(out[k].FromMood = echo.FromMood /\ out[k].StartedAt = echo.StartedAt)

\* C11: an echo recorded at T from a mood with window W is reported by
\* GetActiveEchoes at every T' < T+W with strength 1 - (T'-T)/W, which is
\* positive and 1.0 at T, and is absent at every T' >= T+W; a frightened
\* echo has strength 92/180 (about 0.51) after 22 s.
C11_EchoStrengthWindow ==
    last.op = "GetActiveEchoes" =>
        \A i \in 1..Len(moodHistory) :
            LET echo == moodHistory[i]
                elapsed == now - echo.StartedAt
            IN  echo.FromMood \in DOMAIN Window =>
                    /\ elapsed < Window[echo.FromMood] =>
                           Reported(echo, last.out,
                                    Window[echo.FromMood] - elapsed,
                                    Window[echo.FromMood])
                    /\ elapsed >= Window[echo.FromMood] => Absent(echo, last.out)
                    /\ (echo.FromMood = MoodFrightened /\ elapsed = 22) =>
                           \E k \in 1..Len(last.out) : last.out[k].Strength = 92

C11_Witness ==
    /\ last.op = "GetActiveEchoes"
    /\ Len(moodHistory) = 2
    /\ moodHistory[1].FromMood = MoodFrightened
    /\ now - moodHistory[1].StartedAt = 45
    /\ moodHistory[2].FromMood = MoodFrightened
    /\ now - moodHistory[2].StartedAt = 22
    /\ Len(last.out) = 1
    /\ last.out[1].Strength = 92

RECURSIVE ExpectedExtras(_, _)
\* The candidates the active echoes add for a mood: configured weight x strength.
ExpectedExtras(echoes, mood) ==
    IF echoes = <<>>
    THEN <<>>
    ELSE LET from == Head(echoes).FromMood
             entry == IF from \in DOMAIN echoEffects /\ mood \in DOMAIN echoEffects[from].Effects
                      THEN echoEffects[from].Effects[mood]
                      ELSE <<>>
         IN  [i \in 1..Len(entry) |->
                 [Action |-> entry[i].Action,
                  Weight |-> entry[i].Weight * Head(echoes).Strength]]
             \o ExpectedExtras(Tail(echoes), mood)

BaseTable(mood) ==
    IF mood \in DOMAIN weightedMoodActions
    THEN weightedMoodActions[mood]
    ELSE weightedMoodActions.curious

\* C12: the candidates of SelectAction are the mood's base table followed,
\* for each active echo with an effect entry for the current mood, by that
\* entry's actions at weight x strength; the returned action is one of the
\* candidates; an echo without an entry for the mood adds nothing.
C12_SelectActionCandidates ==
    last.op = "SelectAction" =>
        LET base == BaseTable(last.oldMood)
            cands == last.out.candidates
        IN  /\ Len(cands) >= Len(base)
            /\ \A i \in 1..Len(base) :
                   /\ cands[i].Action = base[i].Action
                   /\ cands[i].Weight = base[i].Weight * 180
            /\ SubSeq(cands, Len(base) + 1, Len(cands))
                   = ExpectedExtras(ActiveEchoes(moodHistory, now), last.oldMood)
            /\ \E i \in 1..Len(cands) : last.out.action = cands[i].Action

C12_Witness ==
    /\ last.op = "SelectAction"
    /\ last.oldMood = MoodCurious
    /\ Len(last.out.echoes) = 2
    /\ last.out.echoes[1].FromMood = MoodFrightened
    /\ last.out.echoes[2].FromMood = MoodStartled
    /\ Len(last.out.candidates) = 12
    /\ last.out.action \in {ActionPeek, ActionFlattenEars, ActionFreeze}

\* C13: with r = draw x total weight, r in [0, total), the choice is the
\* first candidate in list order whose cumulative weight is >= r.
C13_FirstCandidateReached ==
    (last.op = "weightedRandomChoice" /\ Len(last.out.candidates) > 0) =>
        LET cands == last.out.candidates
            total == Cumulative(cands, Len(cands))
            u == last.out.draw
        IN  /\ u < DrawGrid
            /\ \E k \in 1..Len(cands) :
                   /\ last.out.action = cands[k].Action
                   /\ u * total <= Cumulative(cands, k) * DrawGrid
                   /\ \A i \in 1..(k - 1) : u * total > Cumulative(cands, i) * DrawGrid

C13_Witness ==
    /\ last.op = "weightedRandomChoice"
    /\ last.out.candidates = << [Action |-> ActionStay, Weight |-> 10],
                                [Action |-> ActionPeek, Weight |-> 30],
                                [Action |-> ActionFlee, Weight |-> 0] >>
    /\ last.out.draw = 2
    /\ last.out.action = ActionStay

C20_QueryKeepsLedger ==
    [][last'.op \in {"GetActiveEchoes", "SelectAction"} =>
          /\ moodHistory' = moodHistory
          /\ \A i \in 1..Len(moodHistory') : moodHistory'[i].Strength = 180]_vars

C20_Witness ==
    /\ last.op = "GetActiveEchoes"
    /\ Len(moodHistory) = 2
    /\ moodHistory[1].FromMood = MoodStartled
    /\ now - moodHistory[1].StartedAt >= 20
    /\ moodHistory[1].Strength = 180
    /\ moodHistory[2].FromMood = MoodFrightened
    /\ Len(last.out) = 1
    /\ last.out[1].Strength < 180

\* The LLM call failed, timed out, gave no parseable JSON, or named an
\* action outside the mood's vocabulary.
LLMFailed(reply, mood) ==
    \/ reply.kind \in {"unreachable", "deadline", "text"}
    \/ \A i \in 1..Len(AvailableActions(mood)) : AvailableActions(mood)[i] # reply.action

DiagnosticReasons ==
    { "fallback: generating response: connection refused",
      "fallback: generating response: context deadline exceeded",
      "fallback: parsing response: invalid character",
      "fallback - LLM chose invalid action" }

\* The actions a response conveys: it has a single action field.
ResponseActions(out) == {out.Action}

\* C15 as stated: on a failed LLM call SelectActionWithFallback answers with
\* the mood's default movement, expression and sound and a diagnostic reason.
C15_FallbackIsDefaultTriple ==
    (last.op = "SelectActionWithFallback" /\ LLMFailed(last.out.reply, last.oldMood)) =>
        /\ ResponseActions(last.out)
               = { SuggestDefaultAction(last.oldMood).Movement,
                   SuggestDefaultAction(last.oldMood).Expression,
                   SuggestDefaultAction(last.oldMood).Sound }
        /\ last.out.Reason \in DiagnosticReasons

\* C15, amended: on a failed LLM call SelectActionWithFallback answers with
\* the movement of the mood's default set, and with a diagnostic reason; it
\* always answers with a response, never with an error.
C15_FallbackIsDefaultMovement ==
    last.op = "SelectActionWithFallback" =>
        /\ last.out.Action \in AllActions
        /\ LLMFailed(last.out.reply, last.oldMood) =>
               /\ ResponseActions(last.out) = {SuggestDefaultAction(last.oldMood).Movement}
               /\ last.out.Reason \in DiagnosticReasons

C15_Witness ==
    /\ last.op = "SelectActionWithFallback"
    /\ last.oldMood = MoodFrightened
    /\ last.out.reply.kind = "deadline"
    /\ last.out.Action = ActionFlee
    /\ last.out.Reason = "fallback: generating response: context deadline exceeded"

\* C16: for every LLM outcome and every mood, also one without a vocabulary,
\* the action SelectActionWithFallback returns is in AvailableActions().
C16_ActionIsAvailable ==
    last.op = "SelectActionWithFallback" =>
        \E i \in 1..Len(AvailableActions(last.oldMood)) :
            AvailableActions(last.oldMood)[i] = last.out.Action

C16_Witness ==
    /\ last.op = "SelectActionWithFallback"
    /\ last.oldMood = UnknownMood
    /\ last.out.reply = LLMReply("json", "dance")
    /\ last.out.Action = ActionStay

\* The echo is among those GetActiveEchoes would report at time t.
ActiveAt(echo, t) ==
    /\ echo.FromMood \in DOMAIN Window
    /\ t - echo.StartedAt < Window[echo.FromMood]

\* C19: ProcessEvent and Decay never change the echo ledger; the ledger
\* changes only in RecordMoodChange; and an active echo stops being active
\* only when its window ends or when a RecordMoodChange on a full ledger
\* evicts it as the oldest entry.
C19_OnlyRecordMoodChangeAddsEchoes ==
    [][/\ last'.op \in {"ProcessEvent", "Decay"} => moodHistory' = moodHistory
       /\ moodHistory' # moodHistory => last'.op = "RecordMoodChange"
       /\ \A i \in 1..Len(moodHistory) :
              ActiveAt(moodHistory[i], now) =>
                  \/ \E j \in 1..Len(moodHistory') :
                         /\ moodHistory'[j] = moodHistory[i]
                         /\ ActiveAt(moodHistory'[j], now')
                  \/ now' - moodHistory[i].StartedAt >= Window[moodHistory[i].FromMood]
                  \/ /\ i = 1
                     /\ Len(moodHistory) = 8
                     /\ last'.op = "RecordMoodChange"]_vars

C19_Witness ==
    /\ last.op = "ProcessEvent"
    /\ last.ret
    /\ Len(recorded) = 9
    /\ Len(moodHistory) = 8
    /\ moodHistory[1] = recorded[2]
    /\ now > moodHistory[1].StartedAt

\* readInput took a step: it offered a line or closed the channel.
ReaderMoved ==
    \/ tally'.read # tally.read
    \/ inputChan'.closed # inputChan.closed

\* C17: decay ticks and micro ticks are served only by the main goroutine
\* standing at select, so no Decay runs between the ProcessEvent, the
\* RecordMoodChange and the selection of one handled event; readInput
\* changes the channel only, never the emotional state or the engine.
C17_SingleLoopGoroutine ==
    [][/\ (tickers.decay /\ ~tickers'.decay) =>
              (pc = "select" /\ pc' = "select" /\ last'.op = "Decay")
       /\ (tickers.micro /\ ~tickers'.micro) => (pc = "select" /\ pc' = "select")
       /\ pc # "select" => last'.op # "Decay"
       /\ (pc # "select" /\ stateVars' # stateVars) => last'.op = "ProcessEvent"
       /\ (pc # "select" /\ moodHistory' # moodHistory) => last'.op = "RecordMoodChange"
       /\ ReaderMoved => UNCHANGED <<stateVars, moodHistory, last, pc, app, frame>>]_vars

C17_Witness ==
    /\ pc = "choose"
    /\ last.op = "RecordMoodChange"
    /\ frame.changed
    /\ tickers.decay
    /\ inputChan.sending # <<>>

\* C18: in LLM mode the request of a handled event ends within 30 s with
\* one more chosen action, the default movement when the LLM failed or
\* timed out, and with the emotional state and the ledger as they were;
\* every handled event gets exactly one chosen action, and the main
\* goroutine is then back at select.
C18_LLMYieldsOneAction ==
    /\ [][(pc = "choose" /\ LLMMode /\ pc' = "select") =>
              /\ now' - now <= 30
              /\ last'.op = "SelectActionWithFallback"
              /\ last'.out.reply.kind \in {"unreachable", "deadline", "text"} =>
                     last'.out.Action = SuggestDefaultAction(CurrentMood).Movement
              /\ stateVars' = stateVars
              /\ moodHistory' = moodHistory
              /\ tally'.chosen = tally.chosen + 1]_vars
    /\ [](/\ tally.chosen <= tally.handled
          /\ tally.handled <= tally.chosen + 1
          /\ pc = "select" => tally.chosen = tally.handled)
    /\ (pc = "event" /\ LLMMode) ~> (pc = "select" /\ tally.chosen = tally.handled)

C18_Witness ==
    /\ pc = "select"
    /\ last.op = "SelectActionWithFallback"
    /\ last.out.reply.kind = "deadline"
    /\ last.out.Action = ActionFreeze
    /\ last.oldMood = MoodStartled
    /\ now >= 30
    /\ tally.handled = 1
    /\ tally.chosen = 1
    /\ tickers.decay

----------------------------------------------------------------------------
(* Specification of every call of the library, from any mood and intensity *)

SelMoods == Mood \cup {UnknownMood}

SelIntensities == {IntensityLow, IntensityMedium, IntensityHigh}

SelEvents == {EventLoudNoise, EventPetted, "unknown_event"}

SelReplies ==
    { LLMReply("unreachable", ""), LLMReply("text", ""),
      LLMReply("json", ActionFreeze), LLMReply("wrapped", "dance") }

MaxSelTime == 30
SelTimeStep == 15
MaxSelRecords == 1

\* The draws of the selectors: the first and a later one.
SelDraws == {0, DrawGrid - 2}

SelSetMoodStep ==
    /\ \E mood \in SelMoods, intensity \in SelIntensities : SetMood(mood, intensity)
    /\ last' = Call("SetMood", "", 0, FALSE)
    /\ decayCount' = 0
    /\ scenario' = <<>>
    /\ UNCHANGED <<now, moodHistory, recorded>>
    /\ UNCHANGED <<cliVars, tables, sideVars>>

SelEventStep ==
    /\ \E e \in SelEvents : ProcessEvent(NewEventContext(e))
    /\ UNCHANGED <<now, moodHistory, recorded>>
    /\ UNCHANGED <<cliVars, tables, sideVars>>

SelDecayStep ==
    /\ Decay
    /\ UNCHANGED <<now, moodHistory, recorded>>
    /\ UNCHANGED <<cliVars, tables, sideVars>>

SelRecordStep ==
    /\ Len(recorded) < MaxSelRecords
    /\ RecordMoodChange(MoodStartled)
    /\ UNCHANGED <<cliVars, tables, sideVars>>

SelQueryStep ==
    /\ GetActiveEchoes
    /\ UNCHANGED now
    /\ UNCHANGED <<cliVars, tables, sideVars>>

SelSelectStep ==
    /\ \E u \in SelDraws, jitter \in Jitters : SelectAction(u, jitter)
    /\ UNCHANGED now
    /\ UNCHANGED <<cliVars, sideVars>>

SelMicroStep ==
    /\ \E p \in SelDraws, u \in SelDraws : SelectMicroBehavior(CurrentMood, p, u)
    /\ UNCHANGED now
    /\ UNCHANGED <<cliVars, tables, sideVars>>

SelLLMStep ==
    /\ \E reply \in SelReplies : SelectActionWithFallback(reply)
    /\ UNCHANGED now
    /\ UNCHANGED <<cliVars, tables, sideVars>>

SelEngineStep ==
    /\ \E reply \in SelReplies : EngineSelectActionCall(reply)
    /\ UNCHANGED now
    /\ UNCHANGED <<cliVars, tables, sideVars>>

SelClockStep ==
    /\ now + SelTimeStep <= MaxSelTime
    /\ Advance(SelTimeStep)
    /\ UNCHANGED <<cliVars, tables, sideVars>>

NextSel ==
    \/ SelSetMoodStep \/ SelEventStep \/ SelDecayStep \/ SelRecordStep \/ SelQueryStep
    \/ SelSelectStep \/ SelMicroStep \/ SelLLMStep \/ SelEngineStep \/ SelClockStep

SpecSel == InitLLM /\ [][NextSel]_vars

----------------------------------------------------------------------------
(* Specification of the two selectors of the variation engine over every draw *)

\* Intensity is a float64 in [0, 1]: the tiers and values around the thresholds.
DrawIntensities == {0, IntensityLow, 55, IntensityMedium, 75, IntensityHigh, 100}

\* jitter := (rng.Float64() - 0.5) * 0.2, every hundredth of [-0.1, 0.1)
JitterGrid == -10..9

\* An emotional state of any mood and intensity and an engine without echoes.
InitDraw ==
    /\ now = 0
    /\ EnteredAt = 0
    /\ CurrentMood \in SelMoods
    /\ Intensity \in DrawIntensities
    /\ baseline = MoodCurious
    /\ NewVariationEngine
    /\ last = NoCall("New")
    /\ decayCount = 0
    /\ scenario = <<>>
    /\ recorded = <<>>
    /\ NoApp
    /\ Standalone

\* One call on the fresh engine, with any two draws.
DrawSelectStep ==
    /\ last.op = "New"
    /\ \E u \in Draws, jitter \in JitterGrid : SelectAction(u, jitter)
    /\ UNCHANGED now
    /\ UNCHANGED <<cliVars, sideVars>>

DrawMicroStep ==
    /\ last.op = "New"
    /\ \E mood \in SelMoods, p \in Draws, u \in Draws : SelectMicroBehavior(mood, p, u)
    /\ UNCHANGED now
    /\ UNCHANGED <<cliVars, tables, sideVars>>

NextDraw == DrawSelectStep \/ DrawMicroStep

SpecDraw == InitDraw /\ [][NextDraw]_vars

----------------------------------------------------------------------------
(* Specification of two emotional states fed the same calls at the same times *)

\* ProcessEvent at time t on an emotional state given as a value.
ProcessEventOn(state, ctx, t) ==
    LET tr == Transition(ctx.Event, state.CurrentMood) IN
    IF ~tr.ok
    THEN state
    ELSE [CurrentMood |-> tr.NewMood,
          Intensity   |-> ScaleIntensity(tr.Intensity, ctx.Intensity),
          EnteredAt   |-> t]

\* Decay at time t on an emotional state given as a value.
DecayOn(state, t) ==
    IF state.CurrentMood = baseline
    THEN state
    ELSE IF state.CurrentMood \notin DOMAIN decayTimes
    THEN state
    ELSE IF ~DecayDue(t - state.EnteredAt, decayTimes[state.CurrentMood])
    THEN state
    ELSE IF decayPaths[state.CurrentMood] = state.CurrentMood
    THEN state
    ELSE [CurrentMood |-> decayPaths[state.CurrentMood],
          Intensity   |-> DecayIntensity(state.Intensity),
          EnteredAt   |-> t]

TwinEvents == {EventLoudNoise, EventPetted, EventFamiliarFace, "unknown_event"}

TwinHints == {29, DefaultHint, 71}

\* Two states from NewEmotionalState; the first has a variation engine and
\* an LLM engine around it.
InitTwin ==
    /\ now = 0
    /\ NewEmotionalState
    /\ NewVariationEngine
    /\ last = NoCall("New")
    /\ decayCount = 0
    /\ scenario = <<>>
    /\ recorded = <<>>
    /\ NoApp
    /\ NewTables
    /\ twin = [CurrentMood |-> MoodCurious, Intensity |-> IntensityMedium, EnteredAt |-> 0]
    /\ people = <<>>
    /\ enrollers = <<>>
    /\ NoServer

\* Both states receive the event with the hint.
TwinEventStep ==
    /\ \E e \in TwinEvents, h \in TwinHints :
          /\ ProcessEvent(WithIntensity(NewEventContext(e), h))
          /\ twin' = ProcessEventOn(twin, WithIntensity(NewEventContext(e), h), now)
    /\ UNCHANGED <<now, moodHistory, recorded>>
    /\ UNCHANGED <<cliVars, tables, faceVars>>

\* Decay is called on both states.
TwinDecayStep ==
    /\ Decay
    /\ twin' = DecayOn(twin, now)
    /\ UNCHANGED <<now, moodHistory, recorded>>
    /\ UNCHANGED <<cliVars, tables, faceVars>>

\* The first state's mood change is recorded in its engine.
TwinRecordStep ==
    /\ Len(recorded) < MaxSelRecords
    /\ last.op \in {"ProcessEvent", "Decay"}
    /\ last.ret
    /\ RecordMoodChange(last.oldMood)
    /\ UNCHANGED <<cliVars, tables, sideVars>>

\* The first state's variation engine draws; the second state is not asked.
TwinSelectStep ==
    /\ \E u \in SelDraws, jitter \in VarJitters : SelectAction(u, jitter)
    /\ UNCHANGED now
    /\ UNCHANGED <<cliVars, sideVars>>

\* The first state's LLM engine answers; the second state is not asked.
TwinLLMStep ==
    /\ \E reply \in SelReplies : SelectActionWithFallback(reply)
    /\ UNCHANGED now
    /\ UNCHANGED <<cliVars, tables, sideVars>>

TwinClockStep ==
    /\ now + SelTimeStep <= MaxSelTime
    /\ Advance(SelTimeStep)
    /\ UNCHANGED <<cliVars, tables, sideVars>>

NextTwin ==
    \/ TwinEventStep \/ TwinDecayStep \/ TwinRecordStep
    \/ TwinSelectStep \/ TwinLLMStep \/ TwinClockStep

SpecTwin == InitTwin /\ [][NextTwin]_vars

----------------------------------------------------------------------------
(* internal/vision: the face database under concurrent EnrollOwner calls *)

RelationshipOwner == "owner"

\* Person, without the embeddings and the sighting fields.
Person(name, relationship) == [Name |-> name, Relationship |-> relationship]

MaxEnrollers == 2     \* goroutines calling EnrollOwner
MaxEnrollCalls == 2   \* calls each of them makes

Enrollers == 1..MaxEnrollers

FaceNames == {"Alice", "Bob"}

\* len(embeddings) of a call: short of the three Enroll requires, or enough.
EmbeddingCounts == {2, 3}

\* GetOwner() != nil
HasOwner == \E i \in 1..Len(people) : people[i].Relationship = RelationshipOwner

IdleEnroller ==
    [pc |-> "idle", name |-> "", embeddings |-> 0, err |-> "", calls |-> 0,
     ownerAtCall |-> FALSE, added |-> FALSE]

\* NewFaceDB with nothing on disk, and the goroutines that will enrol.
InitFace ==
    /\ now = 0
    /\ NewEmotionalState
    /\ NewVariationEngine
    /\ last = NoCall("New")
    /\ decayCount = 0
    /\ scenario = <<>>
    /\ recorded = <<>>
    /\ NoApp
    /\ NewTables
    /\ twin = NoTwin
    /\ people = <<>>
    /\ enrollers = [g \in Enrollers |-> IdleEnroller]
    /\ NoServer

\* EnrollOwner up to the call of Enroll: the owner check under the read
\* lock, which is released before Enroll is called.
EnrollOwnerCheck(g, name, count) ==
    /\ enrollers[g].pc \in {"idle", "returned"}
    /\ enrollers[g].calls < MaxEnrollCalls
    /\ enrollers' = [enrollers EXCEPT ![g] =
          [pc          |-> IF HasOwner THEN "returned" ELSE "enroll",
           name        |-> name,
           embeddings  |-> count,
           err         |-> IF HasOwner THEN "owner already enrolled" ELSE "",
           calls       |-> @.calls + 1,
           ownerAtCall |-> HasOwner,
           added       |-> FALSE]]
    /\ UNCHANGED people

ErrInsufficientData == "insufficient enrollment data"
ErrPersonExists     == "person already enrolled"
ErrPersonNotFound   == "person not found"
ErrSaving           == "saving database"

\* The error Enroll returns, "" for nil: the length check, then under the
\* write lock the name check and, after the insertion, the save.
EnrollError(name, count, saved) ==
    IF count < 3
    THEN ErrInsufficientData
    ELSE IF \E i \in 1..Len(people) : people[i].Name = name
    THEN ErrPersonExists
    ELSE IF ~saved
    THEN ErrSaving
    ELSE ""

\* Enroll: the length check, then under the write lock the name check, the
\* insertion and save, whose failure takes the person out again.
Enroll(g, saved) ==
    /\ enrollers[g].pc = "enroll"
    /\ LET name == enrollers[g].name
           err  == EnrollError(name, enrollers[g].embeddings, saved)
       IN  /\ people' = IF err = ""
                        THEN Append(people, Person(name, RelationshipOwner))
                        ELSE people
           /\ enrollers' = [enrollers EXCEPT ![g].pc = "returned",
                                             ![g].err = err,
                                             ![g].added = (err = "")]

EnrollOwnerCheckStep ==
    /\ \E g \in Enrollers, name \in FaceNames, count \in EmbeddingCounts :
          EnrollOwnerCheck(g, name, count)
    /\ UNCHANGED <<libVars, cliVars, tables, twin, serverVars>>

EnrollStep ==
    /\ \E g \in Enrollers, saved \in BOOLEAN : Enroll(g, saved)
    /\ UNCHANGED <<libVars, cliVars, tables, twin, serverVars>>

NextFace == EnrollOwnerCheckStep \/ EnrollStep

SpecFace == InitFace /\ [][NextFace]_vars

----------------------------------------------------------------------------
(* Frame conditions and totality of the selectors *)

\* C21: SelectAction never changes the shared tables: after any number of
\* calls, in any mood (a mood without a table included), with or without
\* active echoes, weightedMoodActions and echoEffects are as their
\* initialisers left them, and no single call changes either.
C21_SelectActionKeepsTables ==
    /\ [](tables.weighted = weightedMoodActions /\ tables.effects = echoEffects)
    /\ [][last'.op = "SelectAction" => tables' = tables]_vars

\* A selection whose candidate list got echo weights appended to the base table.
C21_Witness ==
    /\ last.op = "SelectAction"
    /\ last.out.echoes # <<>>
    /\ last.oldMood \in DOMAIN weightedMoodActions
    /\ Len(last.out.candidates) > Len(weightedMoodActions[last.oldMood])
    /\ tables.effects = echoEffects

\* C22: selection never fails.  For each of the seven moods and for a mood
\* without a weighted table SelectAction returns a non-empty action and a
\* non-empty modifier, the unknown mood drawing from the curious table;
\* AvailableActions of a mood without a vocabulary is the curious
\* vocabulary; Decay on a mood missing from the decay tables reports no
\* change and leaves mood, intensity and entry timestamp as they were.
C22_SelectionNeverFails ==
    /\ last.op = "SelectAction" =>
          /\ last.out.action # ""
          /\ last.out.modifier # ""
          /\ last.oldMood \notin DOMAIN weightedMoodActions =>
                /\ last.out.candidates = BaseCandidates(weightedMoodActions[MoodCurious])
                /\ \E i \in 1..Len(weightedMoodActions[MoodCurious]) :
                       weightedMoodActions[MoodCurious][i].Action = last.out.action
    /\ AvailableActions(CurrentMood) # <<>>
    /\ CurrentMood \notin DOMAIN moodActions =>
          AvailableActions(CurrentMood) = moodActions[MoodCurious]
    /\ (last.op = "Decay" /\ last.oldMood \notin DOMAIN decayTimes) =>
          /\ ~last.ret
          /\ CurrentMood = last.oldMood
          /\ Intensity = last.oldIntensity
          /\ EnteredAt = last.oldEnteredAt

\* A selection in a mood no table knows, after the decay threshold of every
\* short-lived mood has passed.
C22_Witness ==
    /\ last.op = "SelectAction"
    /\ last.oldMood = UnknownMood
    /\ CurrentMood \notin DOMAIN decayTimes
    /\ last.out.action = ActionExplore
    /\ last.out.modifier = ModifierEager
    /\ Duration >= SelTimeStep

\* The sum of the weights of a table.
TotalWeight(table) == Cumulative(table, Len(table))

\* The draw u / DrawGrid of [0, 1), scaled to r of [0, total), falls in the
\* stretch of entry i: above the cumulative weight before i (at or above 0
\* for the first entry) and at or below the cumulative weight with i.
InStretch(table, i, u) ==
    /\ i \in 1..Len(table)
    /\ u * TotalWeight(table) <= Cumulative(table, i) * DrawGrid
    /\ i > 1 => u * TotalWeight(table) > Cumulative(table, i - 1) * DrawGrid

\* C23: SelectMicroBehavior returns no behaviour exactly when its first
\* draw is below 0.3 or the mood has no table or an empty one; otherwise it
\* returns the entry of that mood's table in whose cumulative-weight
\* stretch the second draw falls, with a non-empty name and a positive
\* duration.  It has no error result.
C23_MicroBehaviorOrPause ==
    last.op = "SelectMicroBehavior" =>
        LET mood    == last.out.mood
            p       == last.out.draws[1]
            noTable == mood \notin DOMAIN microBehaviors \/ microBehaviors[mood] = <<>>
        IN  /\ Len(last.out.micro) <= 1
            /\ (last.out.micro = <<>>) <=> (10 * p < 3 * DrawGrid \/ noTable)
            /\ last.out.micro # <<>> =>
                  /\ Len(last.out.draws) = 2
                  /\ \E i \in 1..Len(microBehaviors[mood]) :
                        /\ microBehaviors[mood][i].Behavior = last.out.micro[1]
                        /\ InStretch(microBehaviors[mood], i, last.out.draws[2])
                  /\ last.out.micro[1].Name # ""
                  /\ last.out.micro[1].Duration > 0

\* A frightened behaviour chosen past the first entry of its table.
C23_Witness ==
    /\ last.op = "SelectMicroBehavior"
    /\ last.out.mood = MoodFrightened
    /\ last.out.micro # <<>>
    /\ last.out.micro[1] # microBehaviors[MoodFrightened][1].Behavior
    /\ last.out.draws[1] * 10 >= 3 * DrawGrid

\* C24: for every jitter of [-0.1, 0.1): frightened at high intensity is
\* frantic or fast, frightened at low is hesitant, excited at high is
\* frantic or eager, sleepy at high is slow or gentle, curious at low is
\* gentle or normal; and the fear moods follow the rule frantic above 0.8,
\* fast above 0.5, else hesitant, on the intensity plus the jitter.
C24_ModifierByTier ==
    last.op = "SelectAction" =>
        LET mood      == last.oldMood
            intensity == last.oldIntensity
            adjusted  == last.oldIntensity + last.out.jitter
            modifier  == last.out.modifier
        IN  /\ last.out.jitter \in JitterGrid
            /\ (mood = MoodFrightened /\ intensity = IntensityHigh) =>
                  modifier \in {ModifierFrantic, ModifierFast}
            /\ (mood = MoodFrightened /\ intensity = IntensityLow) =>
                  modifier = ModifierHesitant
            /\ (mood = MoodExcited /\ intensity = IntensityHigh) =>
                  modifier \in {ModifierFrantic, ModifierEager}
            /\ (mood = MoodSleepy /\ intensity = IntensityHigh) =>
                  modifier \in {ModifierSlow, ModifierGentle}
            /\ (mood = MoodCurious /\ intensity = IntensityLow) =>
                  modifier \in {ModifierGentle, ModifierNormal}
            /\ mood \in {MoodFrightened, MoodStartled} =>
                  modifier = IF adjusted > 80 THEN ModifierFrantic
                             ELSE IF adjusted > 50 THEN ModifierFast
                             ELSE ModifierHesitant

\* Frightened at high intensity with the lowest jitter: 0.8 is not above 0.8.
C24_Witness ==
    /\ last.op = "SelectAction"
    /\ last.oldMood = MoodFrightened
    /\ last.oldIntensity = IntensityHigh
    /\ last.out.jitter = -10
    /\ last.out.modifier = ModifierFast

\* C25 as stated: the fear moods yield only frantic, fast or hesitant, the
\* positive moods happy and excited only eager or normal, sleepy only slow
\* or gentle, for every intensity and jitter.
C25_PositiveMoodsEagerOrNormal ==
    last.op = "SelectAction" =>
        /\ last.oldMood \in {MoodFrightened, MoodStartled} =>
              last.out.modifier \in {ModifierFrantic, ModifierFast, ModifierHesitant}
        /\ last.oldMood \in {MoodHappy, MoodExcited} =>
              last.out.modifier \in {ModifierEager, ModifierNormal}
        /\ last.oldMood = MoodSleepy =>
              last.out.modifier \in {ModifierSlow, ModifierGentle}

\* C25, amended: for every intensity and jitter the fear moods yield only
\* frantic, fast or hesitant, happy only eager or normal, excited only
\* frantic, eager or fast, and sleepy only slow or gentle.
C25_ModifierFamilies ==
    last.op = "SelectAction" =>
        /\ last.oldMood \in {MoodFrightened, MoodStartled} =>
              last.out.modifier \in {ModifierFrantic, ModifierFast, ModifierHesitant}
        /\ last.oldMood = MoodHappy =>
              last.out.modifier \in {ModifierEager, ModifierNormal}
        /\ last.oldMood = MoodExcited =>
              last.out.modifier \in {ModifierFrantic, ModifierEager, ModifierFast}
        /\ last.oldMood = MoodSleepy =>
              last.out.modifier \in {ModifierSlow, ModifierGentle}

\* Excited at low intensity: neither eager nor normal.
C25_Witness ==
    /\ last.op = "SelectAction"
    /\ last.oldMood = MoodExcited
    /\ last.oldIntensity = IntensityLow
    /\ last.out.modifier = ModifierFast

Selectors ==
    {"SelectAction", "SelectMicroBehavior",
     "PersonalityEngine.SelectAction", "SelectActionWithFallback"}

\* C26: VariationEngine.SelectAction, SelectMicroBehavior,
\* PersonalityEngine.SelectAction and SelectActionWithFallback leave the
\* mood, the intensity and the entry timestamp as they found them, whether
\* they succeed, fall back or fail.
C26_SelectorsKeepState ==
    /\ [][last'.op \in Selectors =>
              /\ CurrentMood' = CurrentMood
              /\ Intensity' = Intensity
              /\ EnteredAt' = EnteredAt]_vars
    /\ [](last.op \in Selectors =>
              /\ CurrentMood = last.oldMood
              /\ Intensity = last.oldIntensity
              /\ EnteredAt = last.oldEnteredAt)

\* A fallback after an unreachable LLM, in a mood entered after the start.
C26_Witness ==
    /\ last.op = "SelectActionWithFallback"
    /\ last.out.reply.kind = "unreachable"
    /\ last.out.Action = ActionFlee
    /\ CurrentMood = MoodFrightened
    /\ Intensity = IntensityHigh
    /\ EnteredAt = SelTimeStep

\* Decay changes the mood: not at baseline, a decay time is configured and
\* has elapsed at time t, and the decay path leads elsewhere.
DecayEligible(mood, enteredAt, t) ==
    /\ mood # baseline
    /\ mood \in DOMAIN decayTimes
    /\ t - enteredAt >= decayTimes[mood]
    /\ decayPaths[mood] # mood

\* What a step may change, and what a call decides from.
ExplicitCallsOnly ==
    /\ <<CurrentMood, Intensity, EnteredAt>>' # <<CurrentMood, Intensity, EnteredAt>> =>
          last'.op \in {"ProcessEvent", "Decay", "SetMood"}
    /\ moodHistory' # moodHistory => last'.op = "RecordMoodChange"
    /\ now' # now => UNCHANGED <<stateVars, moodHistory>>
    /\ last'.op = "Decay" => last'.ret = DecayEligible(CurrentMood, EnteredAt, now)
    /\ last'.op = "GetActiveEchoes" =>
          \A i \in 1..Len(last'.out) :
              LET echo == last'.out[i] IN
              /\ now - echo.StartedAt < echoEffects[echo.FromMood].DecayTime
              /\ echo.Strength =
                    StrengthFull - ((now - echo.StartedAt) * StrengthFull)
                                       \div echoEffects[echo.FromMood].DecayTime

\* C27: stored state changes only inside explicit calls.  Mood, intensity
\* and entry timestamp change only in ProcessEvent, Decay or SetMood; the
\* ledger changes only in RecordMoodChange; the passage of time changes
\* neither, stored echoes keeping their recorded strength; Decay decides
\* from the time elapsed when it is called, and GetActiveEchoes computes
\* the strength it reports from the time elapsed when it is called.
C27_OnlyExplicitCallsChangeState ==
    /\ [][ExplicitCallsOnly]_vars
    /\ [](\A i \in 1..Len(moodHistory) : moodHistory[i].Strength = StrengthFull)

\* A decay that became due only through waiting, with an echo still stored
\* at full strength.
C27_Witness ==
    /\ last.op = "Decay"
    /\ last.ret
    /\ last.oldMood = MoodFrightened
    /\ last.oldEnteredAt = 0
    /\ now = SelTimeStep
    /\ EnteredAt = now
    /\ Len(moodHistory) = 1
    /\ moodHistory[1].StartedAt = 0
    /\ moodHistory[1].Strength = StrengthFull

\* C28: mood transitions are deterministic.  Two emotional states fed the
\* same events, hints and Decay calls at the same times have the same mood,
\* intensity and entry timestamp, whatever the variation engine drew and
\* whatever the LLM answered for one of them in between.
C28_SameCallsSameMood ==
    /\ twin.CurrentMood = CurrentMood
    /\ twin.Intensity = Intensity
    /\ twin.EnteredAt = EnteredAt

\* After a scare that decayed to cautious, with a selection made on an
\* echo of the fright in between.
C28_Witness ==
    /\ last.op = "SelectAction"
    /\ last.out.echoes # <<>>
    /\ last.out.draw # 0
    /\ CurrentMood = MoodCautious
    /\ twin.CurrentMood = MoodCautious
    /\ decayCount = 1
    /\ EnteredAt = SelTimeStep

\* C29: with no active echoes SelectAction selects each action of the
\* mood's table (the curious table for a mood without one) with probability
\* weight / totalWeight: the actions of a table are distinct, the draw
\* r = u * totalWeight selects the entry in whose stretch of [0, totalWeight)
\* it falls, the stretches follow one another from 0 to totalWeight, and the
\* stretch of an entry is as long as its weight.
C29_StretchEqualsWeight ==
    (last.op = "SelectAction" /\ last.out.echoes = <<>>) =>
        LET table == IF last.oldMood \in DOMAIN weightedMoodActions
                     THEN weightedMoodActions[last.oldMood]
                     ELSE weightedMoodActions[MoodCurious]
        IN  /\ \A i, k \in 1..Len(table) : table[i].Action = table[k].Action => i = k
            /\ \A i \in 1..Len(table) :
                  /\ table[i].Weight > 0
                  /\ Cumulative(table, i) - Cumulative(table, i - 1) = table[i].Weight
                  /\ (table[i].Action = last.out.action) <=> InStretch(table, i, last.out.draw)
            /\ Cumulative(table, 0) = 0
            /\ Cumulative(table, Len(table)) = TotalWeight(table)

\* The second half of the draw interval falls past the first entries of
\* the frightened table.
C29_Witness ==
    /\ last.op = "SelectAction"
    /\ last.out.echoes = <<>>
    /\ last.oldMood = MoodFrightened
    /\ 2 * last.out.draw >= DrawGrid
    /\ last.out.action \notin {weightedMoodActions[MoodFrightened][1].Action,
                                weightedMoodActions[MoodFrightened][2].Action}

Owners == {i \in 1..Len(people) : people[i].Relationship = RelationshipOwner}

\* C30: once an owner is enrolled, EnrollOwner returns an error and adds
\* nobody; after any sequence or concurrent interleaving of EnrollOwner
\* calls the face database holds at most one owner.
C30_AtMostOneOwner ==
    /\ \A g \in DOMAIN enrollers :
          (enrollers[g].pc = "returned" /\ enrollers[g].ownerAtCall) =>
              (enrollers[g].err # "" /\ ~enrollers[g].added)
    /\ Cardinality(Owners) <= 1

----------------------------------------------------------------------------
(* The command-line program and the echo ledger *)

\* C31: when the decay tick of the command-line program changes the mood
\* (Decay returns true), the case records that change in the echo ledger:
\* the ledger gains an echo of the mood that ended.
C31_DecayTickRecordsEcho ==
    [][(last'.op = "Decay" /\ last'.ret) =>
           /\ Len(recorded') = Len(recorded) + 1
           /\ recorded'[Len(recorded')].FromMood = CurrentMood
           /\ moodHistory' # moodHistory]_vars

\* One handled event, step by step: the mood update, then the echo of the
\* mood held before it when the mood value changed, then the selection.
EventThenEchoThenAction ==
    /\ (pc = "event" /\ pc' # "event") =>
          /\ last'.op = "ProcessEvent"
          /\ last'.ret = (CurrentMood' # CurrentMood)
          /\ frame'.oldMood = CurrentMood
          /\ pc' = IF last'.ret THEN "record" ELSE "choose"
          /\ recorded' = recorded
    /\ (pc = "record" /\ pc' # "record") =>
          /\ frame.changed
          /\ frame.oldMood # CurrentMood
          /\ recorded' = Append(recorded, MoodEcho(frame.oldMood, StrengthFull, now))
          /\ moodHistory' = Append(Evict(moodHistory), MoodEcho(frame.oldMood, StrengthFull, now))
          /\ pc' = "choose"
    /\ recorded' # recorded => pc = "record"
    /\ (pc' = "choose" /\ pc # "choose") => pc \in {"event", "record"}
    /\ (last' # last /\ last'.op \in {"SelectAction", "SelectActionWithFallback"}) =>
          pc = "choose"

\* C32: when the command-line program handles an event it records an echo
\* exactly when ProcessEvent returned true, from the mood held immediately
\* before the event; an event that leaves the mood value unchanged (no rule,
\* or a rule from the mood to itself) records nothing; the action is
\* selected after the mood update and the recording.
C32_EventEchoBeforeAction ==
    [][EventThenEchoThenAction]_vars

\* The second loud noise: startled became frightened, the echo of startled
\* is in the ledger, the selection is next.
C32_Witness ==
    /\ pc = "choose"
    /\ frame.changed
    /\ frame.oldMood = MoodStartled
    /\ CurrentMood = MoodFrightened
    /\ Len(recorded) = 2
    /\ recorded[2].FromMood = MoodStartled
    /\ last.op = "RecordMoodChange"

----------------------------------------------------------------------------
(* Vocabulary, intensity bounds, echo visibility and reachability *)

\* The mood whose base table a mood draws from.
TableMood(mood) ==
    IF mood \in DOMAIN weightedMoodActions THEN mood ELSE MoodCurious

\* The actions of a mood's declared vocabulary.
Vocabulary(mood) ==
    {AvailableActions(mood)[i] : i \in 1..Len(AvailableActions(mood))}

\* C33 as stated: with no active echoes every action SelectAction returns
\* for a mood belongs to that mood's AvailableActions() vocabulary.
C33_BaseActionsInVocabulary ==
    (last.op = "SelectAction" /\ last.out.echoes = <<>>) =>
        last.out.action \in Vocabulary(last.oldMood)

\* The actions of a mood's base table that its vocabulary does not declare.
BeyondVocabulary(mood) ==
    IF mood = MoodStartled THEN {ActionFlattenEars}
    ELSE IF mood = MoodCurious \/ mood \notin DOMAIN weightedMoodActions
         THEN {ActionSniff}
         ELSE {}

\* C33, amended: with no active echoes every action SelectAction returns
\* comes from the mood's base table; it belongs to the mood's vocabulary
\* except for sniff when curious (or a mood without a table) and
\* flatten_ears when startled.
C33_BaseActionsFromTable ==
    (last.op = "SelectAction" /\ last.out.echoes = <<>>) =>
        /\ \E i \in 1..Len(weightedMoodActions[TableMood(last.oldMood)]) :
               last.out.action =
                   weightedMoodActions[TableMood(last.oldMood)][i].Action
        /\ last.out.action \in
               Vocabulary(last.oldMood) \cup BeyondVocabulary(last.oldMood)

C33_Witness ==
    /\ last.op = "SelectAction"
    /\ last.out.echoes = <<>>
    /\ last.oldMood = MoodCurious
    /\ last.out.action = ActionSniff
    /\ last.out.action \notin Vocabulary(last.oldMood)

\* What one ProcessEvent or Decay call may do to the intensity.
IntensityMoves ==
    /\ (last' # last /\ last'.op = "ProcessEvent") =>
           IF Transition(last'.event, CurrentMood).ok
           THEN Intensity' \in {IntensityLow, IntensityMedium, IntensityHigh}
           ELSE Intensity' = Intensity
    /\ (last' # last /\ last'.op = "Decay") =>
           /\ Intensity' <= Intensity
           /\ last'.ret => Intensity' \in {Intensity - 20, IntensityLow}

\* C34: from NewEmotionalState, under any ProcessEvent (any hint) and Decay
\* calls, the intensity stays within [low, high] = [0.3, 0.9]; a ProcessEvent
\* that applies a rule commits one of the three tiers and one that applies
\* none leaves the intensity alone; Decay never raises the intensity.
C34_IntensityBounded ==
    /\ [](Intensity >= IntensityLow /\ Intensity <= IntensityHigh)
    /\ [][IntensityMoves]_vars

C34_Witness ==
    /\ last.op = "Decay"
    /\ last.ret
    /\ last.oldIntensity = IntensityHigh
    /\ Intensity = IntensityHigh - 20
    /\ Intensity \notin {IntensityLow, IntensityMedium, IntensityHigh}

----------------------------------------------------------------------------
(* Specification of the ledger: records of moods with and without a window *)

MaxLedgerRecords == 9    \* SpecLedger: number of RecordMoodChange calls
LedgerStep       == 10   \* SpecLedger: the clock advances by LedgerStep
MaxLedgerTime    == 20   \* SpecLedger: the clock stops here

\* A mood with a window of 20 s and a mood without one.
LedgerMoods == {MoodStartled, MoodSleepy}

LedgerRecordStep ==
    /\ Len(recorded) < MaxLedgerRecords
    /\ \E m \in LedgerMoods : RecordMoodChange(m)
    /\ UNCHANGED <<cliVars, tables, sideVars>>

LedgerQueryStep ==
    /\ GetActiveEchoes
    /\ UNCHANGED now
    /\ UNCHANGED <<cliVars, tables, sideVars>>

LedgerClockStep ==
    /\ now + LedgerStep <= MaxLedgerTime
    /\ Advance(LedgerStep)
    /\ UNCHANGED <<cliVars, tables, sideVars>>

NextLedger == LedgerRecordStep \/ LedgerQueryStep \/ LedgerClockStep

SpecLedger == Init /\ [][NextLedger]_vars

\* The moods with a configured echo window.
WindowMoods == {MoodFrightened, MoodStartled, MoodExcited, MoodHappy}

\* The record is from a mood with a window and the window is still open.
InWindow(echo) ==
    /\ echo.FromMood \in WindowMoods
    /\ now - echo.StartedAt < echoEffects[echo.FromMood].DecayTime

\* The records that fewer than maxHistory later records have followed.
Surviving ==
    SubSeq(recorded,
           IF Len(recorded) > maxHistory THEN Len(recorded) - maxHistory + 1 ELSE 1,
           Len(recorded))

\* An echo without its strength.
Stamp(echo) == <<echo.FromMood, echo.StartedAt>>

Stamps(echoes) == [i \in 1..Len(echoes) |-> Stamp(echoes[i])]

\* C35: GetActiveEchoes reports exactly the records of moods with a window
\* (frightened, startled, excited, happy) whose window is open and that
\* fewer than 8 later RecordMoodChange calls have followed; a record of a
\* mood without a window is never reported, yet it holds one of the 8 slots
\* and counts toward the eviction of older records.
C35_EchoReportedUnlessEvicted ==
    /\ moodHistory = Surviving
    /\ last.op = "GetActiveEchoes" =>
           /\ Stamps(last.out) = Stamps(SelectSeq(Surviving, InWindow))
           /\ \A i \in 1..Len(last.out) :
                  last.out[i].FromMood \in WindowMoods /\ last.out[i].Strength > 0

C35_Witness ==
    /\ last.op = "GetActiveEchoes"
    /\ Len(recorded) = maxHistory + 1
    /\ InWindow(recorded[1])
    /\ \A i \in 2..Len(recorded) : recorded[i].FromMood = MoodSleepy
    /\ last.out = <<>>

----------------------------------------------------------------------------
(* Specification of the mood graph: events for a while, then decay alone *)

ReachEventsUntil == 16   \* LiveSpecReach: events arrive before this time
ReachStep        == 15   \* LiveSpecReach: the clock advances by ReachStep
MaxReachDwell    == 60   \* LiveSpecReach: the clock stops once a mood was held this long

ReachEventStep ==
    /\ now < ReachEventsUntil
    /\ \E e \in Event : ProcessEvent(NewEventContext(e))
    /\ UNCHANGED <<now, moodHistory, recorded>>
    /\ UNCHANGED <<cliVars, tables, sideVars>>

ReachClockStep ==
    /\ Duration < MaxReachDwell
    /\ Advance(ReachStep)
    /\ UNCHANGED <<cliVars, tables, sideVars>>

NextReach == ReachEventStep \/ DecayStep \/ ReachClockStep

SpecReach == Init /\ [][NextReach]_vars

\* Decay is called again and again, and time passes.
LiveSpecReach == SpecReach /\ WF_vars(DecayStep) /\ WF_vars(ReachClockStep)

\* The moods one ProcessEvent call can lead to from a mood.
EventSuccessors(mood) ==
    {Transition(e, mood).NewMood : e \in {x \in Event : Transition(x, mood).ok}}

\* The mood one Decay call leads to once the mood was held long enough.
DecaySuccessors(mood) ==
    IF mood = baseline \/ mood \notin DOMAIN decayTimes
    THEN {}
    ELSE {decayPaths[mood]}

RECURSIVE MoodsFrom(_)
\* The moods some finite sequence of events and decays leads to.
MoodsFrom(moods) ==
    LET next == moods \cup UNION {EventSuccessors(m) \cup DecaySuccessors(m) : m \in moods}
    IN  IF next = moods THEN moods ELSE MoodsFrom(next)

\* A call changes the mood only along an edge of the mood graph.
MoodMoves ==
    /\ (last' # last /\ last'.op = "ProcessEvent") =>
           CurrentMood' \in EventSuccessors(CurrentMood) \cup {CurrentMood}
    /\ (last' # last /\ last'.op = "Decay" /\ last'.ret) =>
           CurrentMood' \in DecaySuccessors(CurrentMood)
    /\ (last' # last /\ last'.op \notin {"ProcessEvent", "Decay"}) =>
           CurrentMood' = CurrentMood

\* C36: the events and decays lead from the initial state (curious) to
\* each of the seven moods and to no other; whatever state was reached,
\* the baseline mood is among the moods it leads to, and once the events
\* stop the decays alone bring the baseline mood back.
C36_MoodsReachableAndBaselineReturns ==
    /\ [](MoodsFrom({MoodCurious}) = Mood)
    /\ [](CurrentMood \in Mood /\ baseline \in MoodsFrom({CurrentMood}))
    /\ [][MoodMoves]_vars
    /\ []<>(CurrentMood = baseline)

C36_Witness ==
    /\ CurrentMood = MoodFrightened
    /\ last.op = "ProcessEvent"
    /\ last.oldMood = MoodSleepy
    /\ baseline \in MoodsFrom({CurrentMood})

----------------------------------------------------------------------------
(* internal/vision: one enrollment session, called by one goroutine *)

RelationshipFriend == "friend"

minSamples == 5    \* "need at least 5 good samples"
maxSamples == 10   \* "stop after 10"

\* embeddings is len(s.embeddings): the embeddings themselves are opaque.
NewEnrollmentSession(name, relationship) ==
    [name |-> name, relationship |-> relationship, embeddings |-> 0]

\* What the detector makes of a camera frame: an error, or the faces found,
\* the first face's confidence in hundredths, whether it has an embedding
\* and whether isTooSimilar finds it close to a stored one.
Frame(failed, faces, confidence, features, similar) ==
    [failed |-> failed, faces |-> faces, confidence |-> confidence,
     features |-> features, similar |-> similar]

Frames ==
    { Frame(TRUE, 0, 0, FALSE, FALSE),     \* DetectFaces fails
      Frame(FALSE, 0, 0, FALSE, FALSE),    \* nobody
      Frame(FALSE, 2, 90, TRUE, FALSE),    \* two people
      Frame(FALSE, 1, 79, TRUE, FALSE),    \* not clear enough
      Frame(FALSE, 1, 80, FALSE, FALSE),   \* no embedding
      Frame(FALSE, 1, 80, TRUE, TRUE),     \* close to a stored embedding
      Frame(FALSE, 1, 80, TRUE, FALSE) }   \* a good sample

\* The frame passes every check of AddFrame and is stored.
Stored(session, image) ==
    /\ ~image.failed
    /\ image.faces = 1
    /\ ~(image.confidence < 80)
    /\ image.features
    /\ ~(session.embeddings > 0 /\ image.similar)

EnrollmentStatus(failed, collected, complete) ==
    [failed |-> failed, SamplesCollected |-> collected,
     SamplesNeeded |-> minSamples, IsComplete |-> complete]

\* AddFrame with the cap enforced: a full session stores nothing more.
AddFrame_capped(session, image) ==
    LET stored == IF Stored(session, image) /\ session.embeddings < maxSamples
                  THEN session.embeddings + 1
                  ELSE session.embeddings
    IN  [session |-> [session EXCEPT !.embeddings = stored],
         status  |-> IF image.failed
                     THEN EnrollmentStatus(TRUE, 0, FALSE)
                     ELSE EnrollmentStatus(FALSE, stored,
                              Stored(session, image) /\ stored >= maxSamples)]

\* AddFrame: the session after the call and the status it returns.
AddFrame(session, image) ==
    LET stored == IF Stored(session, image)
                  THEN session.embeddings + 1
                  ELSE session.embeddings
    IN  [session |-> [session EXCEPT !.embeddings = stored],
         status  |-> IF image.failed
                     THEN EnrollmentStatus(TRUE, 0, FALSE)
                     ELSE EnrollmentStatus(FALSE, stored,
                              Stored(session, image) /\ stored >= maxSamples)]

CanFinish(session) == session.embeddings >= minSamples

\* The error Finish returns, "" for nil.
FinishError(session, saved) ==
    IF ~CanFinish(session)
    THEN ErrInsufficientData
    ELSE EnrollError(session.name, session.embeddings, saved)

\* The people after Finish.
FinishPeople(session, saved) ==
    IF FinishError(session, saved) = ""
    THEN Append(people, Person(session.name, session.relationship))
    ELSE people

\* Cancel: s.embeddings = nil
Cancel(session) == [session EXCEPT !.embeddings = 0]

MaxStored == 12   \* SpecSession: no frame is sent to a session holding this many

\* A database that is empty or already knows Alice, and a new session.
InitSession ==
    /\ now = 0
    /\ NewEmotionalState
    /\ NewVariationEngine
    /\ last = NoCall("New")
    /\ decayCount = 0
    /\ scenario = <<>>
    /\ recorded = <<>>
    /\ NoApp
    /\ NewTables
    /\ twin = NoTwin
    /\ enrollers = <<>>
    /\ people \in {<<>>, <<Person("Alice", RelationshipFriend)>>}
    /\ activeSession = 0
    /\ \E name \in FaceNames :
          sessions = <<NewEnrollmentSession(name, RelationshipFriend)>>
    /\ requests = <<>>
    /\ sightings = <<>>

SessionAddFrameStep ==
    /\ sessions[1].embeddings < MaxStored
    /\ \E image \in Frames :
          /\ sessions' = <<AddFrame(sessions[1], image).session>>
          /\ last' = [NoCall("AddFrame") EXCEPT
                         !.out = [status |-> AddFrame(sessions[1], image).status,
                                  before |-> sessions[1].embeddings,
                                  stored |-> Stored(sessions[1], image)]]
    /\ UNCHANGED people
    /\ UNCHANGED <<stateVars, now, moodHistory, decayCount, scenario, recorded>>
    /\ UNCHANGED <<cliVars, tables, twin, enrollers, activeSession, requests, sightings>>

SessionFinishStep ==
    /\ \E saved \in BOOLEAN :
          /\ people' = FinishPeople(sessions[1], saved)
          /\ last' = [NoCall("Finish") EXCEPT
                         !.out = [err    |-> FinishError(sessions[1], saved),
                                  before |-> sessions[1].embeddings,
                                  people |-> people]]
    /\ UNCHANGED sessions
    /\ UNCHANGED <<stateVars, now, moodHistory, decayCount, scenario, recorded>>
    /\ UNCHANGED <<cliVars, tables, twin, enrollers, activeSession, requests, sightings>>

SessionCancelStep ==
    /\ sessions' = <<Cancel(sessions[1])>>
    /\ last' = NoCall("Cancel")
    /\ UNCHANGED people
    /\ UNCHANGED <<stateVars, now, moodHistory, decayCount, scenario, recorded>>
    /\ UNCHANGED <<cliVars, tables, twin, enrollers, activeSession, requests, sightings>>

NextSession == SessionAddFrameStep \/ SessionFinishStep \/ SessionCancelStep

SpecSession == InitSession /\ [][NextSession]_vars

\* C38 as stated: a session holds at most maxSamples embeddings; once it
\* holds maxSamples it reports complete and AddFrame adds nothing more;
\* Finish succeeds only with at least minSamples and otherwise returns
\* ErrInsufficientData and leaves the database alone.
C38_AtMostMaxSamples ==
    /\ sessions[1].embeddings <= maxSamples
    /\ last.op = "AddFrame" =>
           /\ last.out.before >= maxSamples =>
                  sessions[1].embeddings = last.out.before
           /\ (~last.out.status.failed /\ last.out.status.IsComplete) =>
                  sessions[1].embeddings >= maxSamples
    /\ last.op = "Finish" =>
           /\ last.out.err = "" => last.out.before >= minSamples
           /\ last.out.before < minSamples =>
                  last.out.err = ErrInsufficientData /\ people = last.out.people

----------------------------------------------------------------------------
(* internal/vision: the enrollment server, one goroutine per HTTP request *)

MaxSessions     == 2   \* SpecServer: no start request once this many sessions were created
MaxServerStored == 5   \* SpecServer: no frame is added to a session holding this many

\* Two requests are served at the same time.
Requests == {"r1", "r2"}

\* Who the start requests enrol: the same friend every time, so that a
\* second Finish() for him fails.
Enrollees == { <<"Bob", RelationshipFriend>> }

StatusOK         == "200"
StatusBadRequest == "400"
StatusConflict   == "409"
StatusInternalServerError == "500"

\* A goroutine between requests; code is the answer to its last request.
Served(code) ==
    [pc |-> "idle", code |-> code, session |-> 0, name |-> "",
     relationship |-> "", seen |-> 0]

\* A goroutine inside a handler, holding the session pointer it read.
Serving(at, session) ==
    [pc |-> at, code |-> "", session |-> session, name |-> "",
     relationship |-> "", seen |-> 0]

\* The frames sent to the server: nobody in view, or a good sample.
ServerFrames == {Frame(FALSE, 0, 0, FALSE, FALSE), Frame(FALSE, 1, 80, TRUE, FALSE)}

\* NewServer on an empty database.
InitServer ==
    /\ now = 0
    /\ NewEmotionalState
    /\ NewVariationEngine
    /\ last = NoCall("New")
    /\ decayCount = 0
    /\ scenario = <<>>
    /\ recorded = <<>>
    /\ NoApp
    /\ NewTables
    /\ twin = NoTwin
    /\ enrollers = <<>>
    /\ people = <<>>
    /\ activeSession = 0
    /\ sessions = <<>>
    /\ requests = [h \in Requests |-> Served("")]
    /\ sightings = <<>>

\* handleEnrollStart up to s.mu.Lock(): the owner check on the database.
handleEnrollStartCheck(h, name, relationship) ==
    /\ requests[h].pc = "idle"
    /\ Len(sessions) < MaxSessions
    /\ requests' = [requests EXCEPT ![h] =
          IF relationship = RelationshipOwner /\ HasOwner
          THEN Served(StatusConflict)
          ELSE [Serving("start", 0) EXCEPT
                    !.name = name, !.relationship = relationship]]
    /\ UNCHANGED <<activeSession, sessions, people>>

\* Mutant: a start replaces the session in progress.
handleEnrollStart_replacing(h) ==
    /\ requests[h].pc = "start"
    /\ sessions' = Append(sessions,
                          NewEnrollmentSession(requests[h].name, requests[h].relationship))
    /\ activeSession' = Len(sessions) + 1
    /\ requests' = [requests EXCEPT ![h] = Served(StatusOK)]
    /\ UNCHANGED people

\* handleEnrollStart under s.mu: conflict, or the new session.
handleEnrollStart(h) ==
    /\ requests[h].pc = "start"
    /\ IF activeSession # 0
       THEN /\ requests' = [requests EXCEPT ![h] = Served(StatusConflict)]
            /\ UNCHANGED <<activeSession, sessions>>
       ELSE /\ sessions' = Append(sessions,
                                  NewEnrollmentSession(requests[h].name,
                                                       requests[h].relationship))
            /\ activeSession' = Len(sessions) + 1
            /\ requests' = [requests EXCEPT ![h] = Served(StatusOK)]
    /\ UNCHANGED people

\* handleEnrollFrame and handleEnrollFinish begin alike: the pointer is
\* read under s.mu, which is released before the session is used.
ReadActiveSession(h, at) ==
    /\ requests[h].pc = "idle"
    /\ requests' = [requests EXCEPT ![h] =
          IF activeSession = 0
          THEN Served(StatusBadRequest)
          ELSE Serving(at, activeSession)]
    /\ UNCHANGED <<activeSession, sessions, people>>

\* AddFrame reads s.embeddings without any lock ...
handleEnrollFrameRead(h) ==
    /\ requests[h].pc = "frame"
    /\ sessions[requests[h].session].embeddings < MaxServerStored
    /\ requests' = [requests EXCEPT ![h].pc = "append",
                                    ![h].seen = sessions[requests[h].session].embeddings]
    /\ UNCHANGED <<activeSession, sessions, people>>

\* ... and writes the slice it appended to, whatever was stored meanwhile.
handleEnrollFrameAppend(h, image) ==
    /\ requests[h].pc = "append"
    /\ LET seen == [sessions[requests[h].session] EXCEPT !.embeddings = requests[h].seen]
       IN  sessions' = [sessions EXCEPT ![requests[h].session] =
                           IF Stored(seen, image) THEN AddFrame(seen, image).session ELSE @]
    /\ requests' = [requests EXCEPT ![h] = Served(StatusOK)]
    /\ UNCHANGED <<activeSession, people>>

handleEnrollFinishCanFinish(h) ==
    /\ requests[h].pc = "canfinish"
    /\ requests' = [requests EXCEPT ![h] =
          IF ~CanFinish(sessions[requests[h].session])
          THEN Served(StatusBadRequest)
          ELSE [@ EXCEPT !.pc = "finish"]]
    /\ UNCHANGED <<activeSession, sessions, people>>

handleEnrollFinishFinish(h, saved) ==
    /\ requests[h].pc = "finish"
    /\ people' = FinishPeople(sessions[requests[h].session], saved)
    /\ requests' = [requests EXCEPT ![h] =
          IF FinishError(sessions[requests[h].session], saved) # ""
          THEN Served(StatusInternalServerError)
          ELSE [@ EXCEPT !.pc = "clear"]]
    /\ UNCHANGED <<activeSession, sessions>>

\* Mutant: the session is cleared whether or not Finish succeeded.
handleEnrollFinishFinish_clearing(h, saved) ==
    /\ requests[h].pc = "finish"
    /\ people' = FinishPeople(sessions[requests[h].session], saved)
    /\ requests' = [requests EXCEPT ![h] =
          IF FinishError(sessions[requests[h].session], saved) # ""
          THEN Served(StatusInternalServerError)
          ELSE [@ EXCEPT !.pc = "clear"]]
    /\ activeSession' = 0
    /\ UNCHANGED sessions

\* The end of handleEnrollFinish, under s.mu again.
handleEnrollFinishClear(h) ==
    /\ requests[h].pc = "clear"
    /\ activeSession' = 0
    /\ requests' = [requests EXCEPT ![h] = Served(StatusOK)]
    /\ UNCHANGED <<sessions, people>>

handleEnrollCancel(h) ==
    /\ requests[h].pc = "idle"
    /\ IF activeSession # 0
       THEN /\ sessions' = [sessions EXCEPT ![activeSession] = Cancel(@)]
            /\ activeSession' = 0
       ELSE UNCHANGED <<activeSession, sessions>>
    /\ requests' = [requests EXCEPT ![h] = Served(StatusOK)]
    /\ UNCHANGED people

serverFrame == <<libVars, cliVars, tables, twin, enrollers, sightings>>

StartCheckStep ==
    /\ \E h \in Requests, who \in Enrollees :
          handleEnrollStartCheck(h, who[1], who[2])
    /\ UNCHANGED serverFrame

StartStep == (\E h \in Requests : handleEnrollStart(h)) /\ UNCHANGED serverFrame

FrameBeginStep ==
    /\ \E h \in Requests : ReadActiveSession(h, "frame")
    /\ UNCHANGED serverFrame

FrameReadStep == (\E h \in Requests : handleEnrollFrameRead(h)) /\ UNCHANGED serverFrame

FrameAppendStep ==
    /\ \E h \in Requests, image \in ServerFrames : handleEnrollFrameAppend(h, image)
    /\ UNCHANGED serverFrame

FinishBeginStep ==
    /\ \E h \in Requests : ReadActiveSession(h, "canfinish")
    /\ UNCHANGED serverFrame

FinishCanFinishStep ==
    /\ \E h \in Requests : handleEnrollFinishCanFinish(h)
    /\ UNCHANGED serverFrame

FinishFinishStep ==
    /\ \E h \in Requests, saved \in BOOLEAN : handleEnrollFinishFinish(h, saved)
    /\ UNCHANGED serverFrame

FinishClearStep == (\E h \in Requests : handleEnrollFinishClear(h)) /\ UNCHANGED serverFrame

CancelStep == (\E h \in Requests : handleEnrollCancel(h)) /\ UNCHANGED serverFrame

NextServer ==
    \/ StartCheckStep \/ StartStep
    \/ FrameBeginStep \/ FrameReadStep \/ FrameAppendStep
    \/ FinishBeginStep \/ FinishCanFinishStep \/ FinishFinishStep \/ FinishClearStep
    \/ CancelStep

SpecServer == InitServer /\ [][NextServer]_vars

\* The request is answered by this step.
Answers(h, code) ==
    requests[h].pc # "idle" /\ requests'[h] = Served(code)

\* How the server's session pointer may change in one step.
SessionPointerMoves ==
    /\ activeSession' # activeSession =>
           \/ /\ activeSession = 0
              /\ sessions' = Append(sessions, sessions'[Len(sessions')])
              /\ activeSession' = Len(sessions')
              /\ \E h \in Requests : requests[h].pc = "start" /\ Answers(h, StatusOK)
           \/ /\ activeSession # 0
              /\ activeSession' = 0
              /\ \/ \E h \in Requests :
                       requests[h].pc = "clear" /\ Answers(h, StatusOK)
                 \/ \E h \in Requests :
                       /\ requests[h].pc = "idle"
                       /\ requests' = [requests EXCEPT ![h] = Served(StatusOK)]
    /\ \A h \in Requests :
           (requests[h].pc = "start" /\ requests'[h].pc = "idle" /\ activeSession # 0) =>
               /\ requests'[h].code = StatusConflict
               /\ activeSession' = activeSession
               /\ sessions' = sessions
    /\ \A h \in Requests :
           (requests[h].pc = "finish" /\ requests'[h].pc = "idle") =>
               /\ requests'[h].code = StatusInternalServerError
               /\ activeSession' = activeSession
               /\ sessions' = sessions
               /\ people' = people
    /\ \A h \in Requests :
           (requests[h].pc # "clear" /\ requests'[h].pc = "clear") =>
               /\ requests[h].pc = "finish"
               /\ Len(people') = Len(people) + 1
               /\ activeSession' = activeSession

\* C37: the server has one session pointer; a start that finds it set is
\* answered with a conflict and changes neither the pointer nor the
\* session; the pointer is set only by a start that found it nil, and it
\* is cleared only by a cancel or at the end of a finish whose Finish()
\* succeeded: a finish whose Finish() fails leaves it as it is.
C37_OneActiveSession ==
    /\ [](activeSession \in 0..Len(sessions))
    /\ [][SessionPointerMoves]_vars

C37_Witness ==
    /\ activeSession = 2
    /\ people = <<Person("Bob", RelationshipFriend)>>
    /\ CanFinish(sessions[2])
    /\ requests["r1"] = Served(StatusConflict)
    /\ requests["r2"] = Served(StatusInternalServerError)

----------------------------------------------------------------------------
(* internal/vision: the face database with removals, recognitions, *)
(* sightings recorded in the background and readers of the counters *)

MaxRecognitions == 2   \* SpecDB: Recognize calls that return a person

Readers == {"r1"}

\* A person with the identifier and the counter; LastSeenAt is written and
\* read together with SeenCount and follows it.
EnrolledPerson(id, name, relationship) ==
    [ID |-> id, Name |-> name, Relationship |-> relationship, SeenCount |-> 0]

PersonIDs == {people[i].ID : i \in 1..Len(people)}

\* db.people[id], for an id that is there
PersonAt(id) == people[CHOOSE i \in 1..Len(people) : people[i].ID = id]

\* generateID(): an identifier nobody holds.
generateID ==
    CHOOSE id \in 1..(Len(people) + Len(sightings) + Cardinality(Readers) + 1) :
        /\ id \notin PersonIDs
        /\ \A g \in 1..Len(sightings) : sightings[g].id # id
        /\ \A h \in Readers : requests[h].person # id

\* delete(db.people, id)
Without(id) == SelectSeq(people, LAMBDA p : p.ID # id)

\* A recordSighting goroutine holds db.mu for writing.
WriteLocked == \E g \in 1..Len(sightings) : sightings[g].pc = "writing"

\* A caller between calls, holding the pointer and the value it read last.
Reader(at, person, seen) == [pc |-> at, person |-> person, seen |-> seen]

InitDB ==
    /\ now = 0
    /\ NewEmotionalState
    /\ NewVariationEngine
    /\ last = NoCall("New")
    /\ decayCount = 0
    /\ scenario = <<>>
    /\ recorded = <<>>
    /\ NoApp
    /\ NewTables
    /\ twin = NoTwin
    /\ enrollers = <<>>
    /\ people = <<>>
    /\ activeSession = 0
    /\ sessions = <<>>
    /\ requests = [h \in Readers |-> Reader("idle", 0, 0)]
    /\ sightings = <<>>

\* Enroll as one critical section: the error, and the people it leaves.
EnrollCall(name, relationship, count, saved) ==
    /\ ~WriteLocked
    /\ people' = IF EnrollError(name, count, saved) = ""
                 THEN Append(people, EnrolledPerson(generateID, name, relationship))
                 ELSE people
    /\ last' = [NoCall("Enroll") EXCEPT
                   !.out = [err |-> EnrollError(name, count, saved)]]

\* RemovePerson with the deletion undone when the save fails.
RemovePerson_restoring(id, saved) ==
    /\ ~WriteLocked
    /\ people' = IF id \in PersonIDs /\ saved THEN Without(id) ELSE people
    /\ last' = [NoCall("RemovePerson") EXCEPT
                   !.out = [err |-> IF id \notin PersonIDs THEN ErrPersonNotFound
                                    ELSE IF ~saved THEN ErrSaving
                                    ELSE ""]]

\* RemovePerson: not found, or the deletion followed by save, whose error
\* is returned as it is.
RemovePerson(id, saved) ==
    /\ ~WriteLocked
    /\ people' = IF id \in PersonIDs THEN Without(id) ELSE people
    /\ last' = [NoCall("RemovePerson") EXCEPT
                   !.out = [err |-> IF id \notin PersonIDs THEN ErrPersonNotFound
                                    ELSE IF ~saved THEN ErrSaving
                                    ELSE ""]]

\* Recognize of a face that matches the person id above the threshold:
\* the goroutine is started and the pointer returned.
Recognize(id) ==
    /\ ~WriteLocked
    /\ id \in PersonIDs
    /\ Len(sightings) < MaxRecognitions
    /\ sightings' = Append(sightings, [id |-> id, pc |-> "started"])
    /\ last' = [NoCall("Recognize") EXCEPT !.out = [person |-> id]]

\* recordSighting takes db.mu ...
recordSightingLock(g) ==
    /\ sightings[g].pc = "started"
    /\ ~WriteLocked
    /\ sightings' = [sightings EXCEPT ![g].pc = "writing"]
    /\ UNCHANGED people

\* ... and, if the person is still there, counts the sighting.
recordSighting(g) ==
    /\ sightings[g].pc = "writing"
    /\ people' = [i \in 1..Len(people) |->
                     IF people[i].ID = sightings[g].id
                     THEN [people[i] EXCEPT !.SeenCount = @ + 1]
                     ELSE people[i]]
    /\ sightings' = [sightings EXCEPT ![g].pc = "done"]

\* GetPerson, or an element of ListPeople: a pointer, under the read lock.
GetPerson(h, id) ==
    /\ requests[h].pc = "idle"
    /\ ~WriteLocked
    /\ id \in PersonIDs
    /\ requests' = [requests EXCEPT ![h] = Reader("holding", id, PersonAt(id).SeenCount)]

\* The caller starts to read p.LastSeenAt and p.SeenCount: no lock is taken.
ReadBegin(h) ==
    /\ requests[h].pc = "holding"
    /\ requests' = [requests EXCEPT ![h].pc = "reading"]

\* A sighting of the person the reader holds is being written.
Racing(h) ==
    \E g \in 1..Len(sightings) :
        sightings[g].pc = "writing" /\ sightings[g].id = requests[h].person

\* The read ends: the counter as it was when the pointer was obtained, as it
\* is now, or, while it is being written, as it will be.
ReadEnd(h, value) ==
    /\ requests[h].pc = "reading"
    /\ value \in {requests[h].seen}
                 \cup (IF requests[h].person \in PersonIDs
                       THEN {PersonAt(requests[h].person).SeenCount}
                            \cup (IF Racing(h)
                                  THEN {PersonAt(requests[h].person).SeenCount + 1}
                                  ELSE {})
                       ELSE {})
    /\ requests' = [requests EXCEPT ![h] = Reader("idle", 0, value)]

dbFrame == <<stateVars, now, moodHistory, decayCount, scenario, recorded,
             cliVars, tables, twin, enrollers, activeSession, sessions>>

DBEnrollStep ==
    /\ \E name \in FaceNames, count \in EmbeddingCounts, saved \in BOOLEAN :
          EnrollCall(name, RelationshipFriend, count, saved)
    /\ UNCHANGED <<requests, sightings>>
    /\ UNCHANGED dbFrame

DBRemoveStep ==
    /\ \E id \in 1..(Cardinality(FaceNames) + 1), saved \in BOOLEAN : RemovePerson(id, saved)
    /\ UNCHANGED <<requests, sightings>>
    /\ UNCHANGED dbFrame

DBRecognizeStep ==
    /\ \E id \in PersonIDs : Recognize(id)
    /\ UNCHANGED <<people, requests>>
    /\ UNCHANGED dbFrame

SightingLockStep ==
    /\ \E g \in 1..Len(sightings) : recordSightingLock(g)
    /\ UNCHANGED <<requests, last>>
    /\ UNCHANGED dbFrame

SightingStep ==
    /\ \E g \in 1..Len(sightings) : recordSighting(g)
    /\ UNCHANGED <<requests, last>>
    /\ UNCHANGED dbFrame

GetPersonStep ==
    /\ \E h \in Readers, id \in PersonIDs : GetPerson(h, id)
    /\ UNCHANGED <<people, sightings, last>>
    /\ UNCHANGED dbFrame

ReadBeginStep ==
    /\ \E h \in Readers : ReadBegin(h)
    /\ UNCHANGED <<people, sightings, last>>
    /\ UNCHANGED dbFrame

ReadEndStep ==
    /\ \E h \in Readers, value \in 0..(MaxRecognitions + 1) : ReadEnd(h, value)
    /\ UNCHANGED <<people, sightings, last>>
    /\ UNCHANGED dbFrame

NextDB ==
    \/ DBEnrollStep \/ DBRemoveStep \/ DBRecognizeStep
    \/ SightingLockStep \/ SightingStep
    \/ GetPersonStep \/ ReadBeginStep \/ ReadEndStep

SpecDB == InitDB /\ [][NextDB]_vars

\* The goroutines started by Recognize are scheduled.
LiveSpecDB == SpecDB /\ WF_vars(SightingLockStep) /\ WF_vars(SightingStep)

\* C39 as stated: a call of Enroll or RemovePerson that returns an error
\* leaves db.people as it found it.
C39_ErrorLeavesPeopleUnchanged ==
    [][(last' # last /\ last'.op \in {"Enroll", "RemovePerson"}
                     /\ last'.out.err # "") => people' = people]_vars

\* The sightings of a person that were counted.
Counted(id) ==
    Cardinality({g \in 1..Len(sightings) :
                    sightings[g].id = id /\ sightings[g].pc = "done"})

\* C40 as stated: the counter of every person is the number of finished
\* sightings of that person, so that no increment is lost or doubled, and
\* no caller reads LastSeenAt and SeenCount through a pointer it was given
\* while recordSighting is writing them.
C40_SightingsCountedWithoutRace ==
    /\ \A i \in 1..Len(people) : people[i].SeenCount = Counted(people[i].ID)
    /\ \A h \in Readers : requests[h].pc = "reading" => ~Racing(h)

====
